---- MODULE Spec2Model ----
(***************************************************************************)
(* Model of politic-in/core, package anonymization (src/unnamed/part_005): *)
(* the Aggregator (k-anonymity, differential-privacy noise), the          *)
(* differential-privacy function, the ResponseSplitter, payout tokens,    *)
(* the constructors that take a key, the Encryptor and ValidateSeparation. *)
(*                                                                         *)
(* Conventions                                                             *)
(*  - a Go pointer or map that may be nil is a record with an isNil field; *)
(*  - float64 epsilon is an integer number of thousandths (1000 = 1.0);    *)
(*  - Go's int is a two's-complement integer IntMin .. IntMax, a narrow    *)
(*    word, so that every wrap-around of an addition is enumerated;        *)
(*  - a value of type interface{} is a record [type, val];                 *)
(*  - a draw from crypto/rand is an input chosen by the action.            *)
(***************************************************************************)
EXTENDS Integers, Sequences, FiniteSets, TLC

VARIABLES
    config,      \* Aggregator.config, fixed by NewAggregatorWithConfig
    responses,   \* the batch of AnonymizedResponse handed to AggregateResponses
    aggOut,      \* what the AggregateResponses call returned
    dpOut,       \* what the direct ApplyDifferentialPrivacy call returned
    clock,       \* time.Now(), in days
    splitPrev,   \* the SplitResponse call before the last one
    splitLast,   \* the last SplitResponse call: arguments, draws, results
    issued,      \* the direct GeneratePayoutToken call and what it returned
    checked,     \* the last ValidatePayoutToken call: token, time, error
    built,       \* the last constructor call taking a key, and what it returned
    sealedPrev,  \* the Encrypt/EncryptString call before the last one
    sealed,      \* the last Encrypt/EncryptString call: key, input, nonce, results
    opened,      \* the Decrypt/DecryptString call: key, input, results
    sepOut,      \* the ValidateSeparation call: guarantee and error
    aggMu,       \* Aggregator.mu
    aggPc,       \* where each caller of the shared Aggregator stands
    aggArg,      \* the batch each caller's call in progress was given
    aggRet,      \* what each caller's last call returned, once it has
    elections,   \* blackout Checker.elections
    overrides,   \* blackout Checker.overrides: key -> address of an Override
    requested,   \* the Override values RequestOverride returned, by address
    blkOut,      \* the last call on the blackout Checker and what it returned
    chkMu,       \* blackout Checker.mu
    chkPc,       \* where each goroutine calling the shared Checker stands
    chkCall,     \* the call each of these goroutines is in
    today,       \* time.Now() of package civicscore, in days
    user,        \* a UserScore
    scoreOut,    \* the last civic-score call and what it returned
    matcher,     \* the booth Matcher: booths and indices
    mMu,         \* Matcher.mu
    mPc,         \* where each goroutine calling the shared Matcher stands
    mCall,       \* the call each of these goroutines is in
    mAdded       \* the number of AddBooth calls that have returned

tokenVars == <<issued, checked>>
encVars == <<built, sealedPrev, sealed, opened>>
lockVars == <<aggMu, aggPc, aggArg, aggRet>>
blkVars == <<elections, overrides, requested, blkOut>>
chkVars == <<chkMu, chkPc, chkCall>>
scoreVars == <<today, user, scoreOut>>
matcherVars == <<matcher, mMu, mPc, mCall, mAdded>>

(* The variables of package anonymization's sequential operations.         *)
anonVars ==
    <<config, responses, aggOut, dpOut, clock, splitPrev, splitLast,
      tokenVars, encVars, sepOut>>

(* The variables of the concurrent callers and of the other packages.      *)
restVars == <<lockVars, blkVars, chkVars, scoreVars, matcherVars>>

(* What the callers of the shared Aggregator leave alone.                  *)
exceptLock == <<anonVars, blkVars, chkVars, scoreVars, matcherVars>>

(* What the calls on the blackout Checker leave alone.                     *)
exceptBlk == <<anonVars, lockVars, chkVars, scoreVars, matcherVars>>

(* What the goroutines sharing the blackout Checker leave alone, the       *)
(* Checker apart.                                                          *)
exceptChk == <<anonVars, lockVars, scoreVars, matcherVars>>

(* What the civic-score calls leave alone.                                 *)
exceptScore == <<anonVars, lockVars, blkVars, chkVars, matcherVars>>

(* What the goroutines sharing the booth Matcher leave alone.              *)
exceptMatcher == <<anonVars, lockVars, blkVars, chkVars, scoreVars>>

vars == <<anonVars, restVars>>

----------------------------------------------------------------------------
(* Program constants (part_005:36-57).                                     *)

KAnonymityThreshold == 10
MinAggregationSize == 10
DifferentialPrivacyEpsilon == 1000
LargeSampleThreshold == 50
MaxTokenAge == 30

(* Bounds of the model.                                                    *)

MaxBatch == 51
MaxDup == 1
MaxMinor == 5
MaxClock == 1
IntMax == 2047

IntMin == 0 - IntMax - 1

(* Go's int arithmetic wraps around.                                       *)
WrapInt(x) == ((x - IntMin) % (2 * IntMax + 2)) + IntMin

----------------------------------------------------------------------------
(* Values of type interface{} and fmt.Sprintf("%v", v).                    *)

StrVal(s) == [type |-> "string", val |-> s]
IntVal(n) == [type |-> "int", val |-> n]
BoolVal(b) == [type |-> "bool", val |-> b]

Digit(d) ==
    CASE d = 0 -> "0" [] d = 1 -> "1" [] d = 2 -> "2" [] d = 3 -> "3"
      [] d = 4 -> "4" [] d = 5 -> "5" [] d = 6 -> "6" [] d = 7 -> "7"
      [] d = 8 -> "8" [] d = 9 -> "9"

RECURSIVE Itoa(_)
Itoa(n) ==
    IF n < 0 THEN "-" \o Itoa(0 - n)
    ELSE IF n < 10 THEN Digit(n)
    ELSE Itoa(n \div 10) \o Digit(n % 10)

Sprintf(v) ==
    CASE v.type = "string" -> v.val
      [] v.type = "int" -> Itoa(v.val)
      [] v.type = "bool" -> IF v.val THEN "true" ELSE "false"

----------------------------------------------------------------------------
(* laplacianNoise and ApplyDifferentialPrivacy.                            *)

(* laplacianNoise clamps the uniform sample u to [1e-10, 1 - 1e-10], so    *)
(* |noise| <= scale * ln(1 / 2e-10) = scale * 22.3327.  NoiseBound is that *)
(* bound rounded to the nearest integer, for scale = 1000 / eps.           *)
NoiseBound(eps) == (223327 + 5 * eps) \div (10 * eps)

(* The values int(math.Round(noise)) can take.  A rounded noise outside    *)
(* the range of int converts to an implementation-dependent value: the     *)
(* least int on amd64, the nearest bound of int on arm64.                  *)
RoundedNoise(eps) ==
    LET B == NoiseBound(eps)
    IN  IF B <= IntMax THEN (0 - B) .. B ELSE IntMin .. IntMax

(* The effective epsilon after the fallback of lines 311-313.              *)
EffectiveEpsilon(epsilon) ==
    IF epsilon <= 0 THEN DifferentialPrivacyEpsilon ELSE epsilon

(* Mutant: the result is not clamped at zero.                              *)
ApplyDifferentialPrivacyNoClamp(count, epsilon, draw) ==
    IF count >= LargeSampleThreshold
    THEN [value |-> count, drew |-> FALSE]
    ELSE [value |-> WrapInt(count + draw), drew |-> TRUE]

(* Mutant: a count equal to the threshold is noised.                       *)
ApplyDifferentialPrivacyStrict(count, epsilon, draw) ==
    IF count > LargeSampleThreshold
    THEN [value |-> count, drew |-> FALSE]
    ELSE LET result == WrapInt(count + draw)
         IN  [value |-> IF result < 0 THEN 0 ELSE result, drew |-> TRUE]

(* ApplyDifferentialPrivacy(count, epsilon) with the rounded noise `draw`  *)
(* it would draw.  drew says whether laplacianNoise was called.            *)
ApplyDifferentialPrivacy(count, epsilon, draw) ==
    IF count >= LargeSampleThreshold
    THEN [value |-> count, drew |-> FALSE]
    ELSE LET result == WrapInt(count + draw)
         IN  [value |-> IF result < 0 THEN 0 ELSE result, drew |-> TRUE]

----------------------------------------------------------------------------
(* The Aggregator.                                                         *)

NilMap == [isNil |-> TRUE]
MakeMap(m) == [isNil |-> FALSE, m |-> m]

NilResult == [isNil |-> TRUE]
NilPtr == [isNil |-> TRUE]

EmptyMap == << >>

(* Mutant: a repeated answer sets the counter instead of incrementing it.  *)
IncrementOverwrites(counts, qID, ansStr) ==
    IF qID \notin DOMAIN counts
    THEN counts @@ (qID :> (ansStr :> 1))
    ELSE IF ansStr \notin DOMAIN counts[qID]
    THEN [counts EXCEPT ![qID] = @ @@ (ansStr :> 1)]
    ELSE [counts EXCEPT ![qID][ansStr] = 1]

(* questionCounts[qID][ansStr]++, creating the inner map when absent       *)
(* (lines 262-266).                                                        *)
Increment(counts, qID, ansStr) ==
    IF qID \notin DOMAIN counts
    THEN counts @@ (qID :> (ansStr :> 1))
    ELSE IF ansStr \notin DOMAIN counts[qID]
    THEN [counts EXCEPT ![qID] = @ @@ (ansStr :> 1)]
    ELSE [counts EXCEPT ![qID][ansStr] = @ + 1]

(* The inner loop over one response's answers (lines 261-267); Go ranges   *)
(* over a map in an unspecified order, and the increments commute.         *)
RECURSIVE CountAnswers(_, _, _)
CountAnswers(counts, answers, todo) ==
    IF todo = {} THEN counts
    ELSE LET qID == CHOOSE q \in todo : TRUE
         IN  CountAnswers(Increment(counts, qID, Sprintf(answers[qID])),
                          answers, todo \ {qID})

(* The outer loop over the batch (lines 260-268).  The set comprehension   *)
(* binds the tally after response i as a value before the loop goes on.    *)
RECURSIVE CountResponses(_, _, _)
CountResponses(counts, batch, i) ==
    IF i > Len(batch) THEN counts
    ELSE CHOOSE final \in
             {CountResponses(next, batch, i + 1) :
                 next \in {CountAnswers(counts, batch[i].Answers,
                                        DOMAIN batch[i].Answers)}} : TRUE

(* The cells (question, option) of a tally: one ApplyDifferentialPrivacy   *)
(* call, hence one draw, per cell (lines 274-276).                         *)
Cells(counts) ==
    UNION {{<<qID, opt>> : opt \in DOMAIN counts[qID]} : qID \in DOMAIN counts}

(* Mutant: a batch of exactly LargeSampleThreshold responses is noised.    *)
NoiseConditionInclusive(cfg, count) == cfg.ApplyNoise /\ count <= LargeSampleThreshold

(* Whether AggregateResponses noises the counts (lines 272 and 284).       *)
NoiseCondition(cfg, count) == cfg.ApplyNoise /\ count < LargeSampleThreshold

(* The map questionResults built by lines 271-281; draws[<<q, o>>] is the  *)
(* rounded noise drawn for that cell.                                      *)
QuestionResults(cfg, count, counts, draws) ==
    [qID \in DOMAIN counts |->
        IF NoiseCondition(cfg, count)
        THEN [opt \in DOMAIN counts[qID] |->
                 ApplyDifferentialPrivacy(counts[qID][opt], EffectiveEpsilon(cfg.DPEpsilon),
                                          draws[<<qID, opt>>]).value]
        ELSE counts[qID]]

(* meetsKAnon of line 283.                                                 *)
MeetsKAnon(cfg, count) == count >= cfg.KAnonymityThreshold

(* CheckKAnonymity (lines 242-244).                                        *)
CheckKAnonymity(cfg, responseCount) == responseCount >= cfg.KAnonymityThreshold

(* Mutant: the count is redacted with the tallies.                         *)
ReportedCountRedacted(cfg, count) == IF MeetsKAnon(cfg, count) THEN count ELSE 0

(* ResponseCount of the returned AggregatedResult (lines 251 and 295).     *)
ReportedCount(cfg, count) == count

(* Mutant: below the threshold the tallies are zeroed, not omitted.        *)
PublishedResultsZeroed(cfg, count, questionResults) ==
    IF ~MeetsKAnon(cfg, count)
    THEN MakeMap([qID \in DOMAIN questionResults |->
                     [opt \in DOMAIN questionResults[qID] |-> 0]])
    ELSE MakeMap(questionResults)

(* Results of the returned AggregatedResult (lines 286-289, 296).          *)
PublishedResults(cfg, count, questionResults) ==
    IF ~MeetsKAnon(cfg, count) THEN NilMap ELSE MakeMap(questionResults)

(* Mutant: a batch of exactly MinAggregationSize responses is rejected.    *)
InsufficientInclusive(cfg, count) == count <= cfg.MinAggregationSize

(* The rejection test of line 252.                                         *)
Insufficient(cfg, count) == count < cfg.MinAggregationSize

(* What AggregateResponses returns (lines 251-254 and 283-300) for a batch *)
(* of `count` responses whose tally (lines 256-268) is `counts`.           *)
AggregateReturn(cfg, count, counts, pollID, hexagonID, acID, draws, now) ==
    IF Insufficient(cfg, count)
    THEN [result |-> NilResult, err |-> "ErrInsufficientResponses"]
    ELSE [result |->
             [isNil |-> FALSE,
              PollID |-> pollID,
              HexagonID |-> hexagonID,
              ACID |-> acID,
              ComputedAt |-> now,
              ResponseCount |-> ReportedCount(cfg, count),
              Results |-> PublishedResults(cfg, count,
                              QuestionResults(cfg, count, counts, draws)),
              MeetsKAnon |-> MeetsKAnon(cfg, count),
              NoiseApplied |-> NoiseCondition(cfg, count)],
          err |-> "nil"]

----------------------------------------------------------------------------
(* Payout tokens and the ResponseSplitter.                                 *)

(* A draw of generateSecureRandomString (lines 554-567): the string, or    *)
(* the error of the random source.                                         *)
RandOK(str) == [ok |-> TRUE, val |-> str]
RandErr == [ok |-> FALSE]

(* hex(HMAC-SHA256(key, msg)) and hex(SHA-256(data)): one-way functions,   *)
(* written as the term they are applied to.                                *)
HmacSha256(key, msg) == "hmac(" \o key \o "," \o msg \o ")"
Sha256(data) == "sha256(" \o data \o ")"

(* HashDeviceFingerprint (lines 328-331).                                  *)
HashDeviceFingerprint(fingerprint) == Sha256(fingerprint)

Ptr(rec) == [isNil |-> FALSE, rec |-> rec]

(* Mutant: the token hash is keyed with a fixed string, not the salt.      *)
GeneratePayoutTokenUnsalted(userID, pollID, amountPaisa, salt, now) ==
    IF userID = "" \/ pollID = ""
    THEN [token |-> NilPtr, mapping |-> NilPtr, err |-> "userID and pollID are required"]
    ELSE IF ~salt.ok
    THEN [token |-> NilPtr, mapping |-> NilPtr, err |-> "failed to generate salt"]
    ELSE LET tokenHash == HmacSha256("", userID \o pollID)
         IN  [token |-> Ptr([TokenHash |-> tokenHash,
                             Amount |-> amountPaisa,
                             PollID |-> pollID,
                             CreatedAt |-> now,
                             ExpiresAt |-> now + MaxTokenAge]),
              mapping |-> Ptr([UserID |-> userID,
                               TokenHash |-> tokenHash,
                               PollID |-> pollID,
                               Salt |-> salt.val,
                               CreatedAt |-> now]),
              err |-> "nil"]

(* GeneratePayoutToken (lines 93-127).                                     *)
GeneratePayoutToken(userID, pollID, amountPaisa, salt, now) ==
    IF userID = "" \/ pollID = ""
    THEN [token |-> NilPtr, mapping |-> NilPtr, err |-> "userID and pollID are required"]
    ELSE IF ~salt.ok
    THEN [token |-> NilPtr, mapping |-> NilPtr, err |-> "failed to generate salt"]
    ELSE LET tokenHash == HmacSha256(salt.val, userID \o pollID)
         IN  [token |-> Ptr([TokenHash |-> tokenHash,
                             Amount |-> amountPaisa,
                             PollID |-> pollID,
                             CreatedAt |-> now,
                             ExpiresAt |-> now + MaxTokenAge]),
              mapping |-> Ptr([UserID |-> userID,
                               TokenHash |-> tokenHash,
                               PollID |-> pollID,
                               Salt |-> salt.val,
                               CreatedAt |-> now]),
              err |-> "nil"]

(* Mutant: the expiry is tested before the token's fields.                 *)
ValidatePayoutTokenExpiryFirst(token, now) ==
    IF token.isNil THEN "ErrInvalidToken"
    ELSE IF now > token.rec.ExpiresAt THEN "ErrTokenExpired"
    ELSE IF token.rec.TokenHash = "" \/ token.rec.PollID = "" THEN "ErrInvalidToken"
    ELSE "nil"

(* Mutant: a token is reported expired on the day after its expiry only.   *)
ValidatePayoutTokenForgets(token, now) ==
    IF token.isNil THEN "ErrInvalidToken"
    ELSE IF token.rec.TokenHash = "" \/ token.rec.PollID = "" THEN "ErrInvalidToken"
    ELSE IF now = token.rec.ExpiresAt + 1 THEN "ErrTokenExpired"
    ELSE "nil"

(* ValidatePayoutToken (lines 130-141); now is what time.Now() returns and *)
(* t.After(u) is t > u.                                                    *)
ValidatePayoutToken(token, now) ==
    IF token.isNil THEN "ErrInvalidToken"
    ELSE IF token.rec.TokenHash = "" \/ token.rec.PollID = "" THEN "ErrInvalidToken"
    ELSE IF now > token.rec.ExpiresAt THEN "ErrTokenExpired"
    ELSE "nil"

(* The IdentityRecord literal of lines 529-535.                            *)
IdentityRecord(userID, tokenHash, pollID, earningAmountPaisa, now) ==
    [UserID |-> userID,
     PayoutTokenHash |-> tokenHash,
     PollID |-> pollID,
     EarningAmountPaisa |-> earningAmountPaisa,
     CreatedAt |-> now]

(* The ResponseRecord literal of lines 538-547.                            *)
ResponseRecord(responseID, pollID, hexagonID, answers, responseTimeSeconds, deviceFingerprint, tokenHash, now) ==
    [ResponseID |-> responseID,
     PollID |-> pollID,
     HexagonID |-> hexagonID,
     Answers |-> answers,
     ResponseTimeSeconds |-> responseTimeSeconds,
     DeviceFingerprintHash |-> HashDeviceFingerprint(deviceFingerprint),
     PayoutTokenHash |-> tokenHash,
     CreatedAt |-> now]

(* Mutant: the identity record also carries the location cell.             *)
SplitResponseSharesLocation(args, rand, tokenNow, now) ==
    IF ~rand.responseID.ok
    THEN [identity |-> NilPtr, response |-> NilPtr, err |-> "rand"]
    ELSE LET gen == GeneratePayoutToken(args.userID, args.pollID,
                                        args.earningAmountPaisa, rand.salt, tokenNow)
         IN  IF gen.err # "nil"
             THEN [identity |-> NilPtr, response |-> NilPtr, err |-> gen.err]
             ELSE [identity |-> Ptr(IdentityRecord(args.userID, gen.token.rec.TokenHash,
                                        args.pollID, args.earningAmountPaisa, now)
                                    @@ [HexagonID |-> args.hexagonID]),
                   response |-> Ptr(ResponseRecord(rand.responseID.val, args.pollID,
                                        args.hexagonID, args.answers,
                                        args.responseTimeSeconds, args.deviceFingerprint,
                                        gen.token.rec.TokenHash, now)),
                   err |-> "nil"]

(* Mutant: the device fingerprint is hashed together with the user id.     *)
SplitResponseLeaksUser(args, rand, tokenNow, now) ==
    IF ~rand.responseID.ok
    THEN [identity |-> NilPtr, response |-> NilPtr, err |-> "rand"]
    ELSE LET gen == GeneratePayoutToken(args.userID, args.pollID,
                                        args.earningAmountPaisa, rand.salt, tokenNow)
         IN  IF gen.err # "nil"
             THEN [identity |-> NilPtr, response |-> NilPtr, err |-> gen.err]
             ELSE [identity |-> Ptr(IdentityRecord(args.userID, gen.token.rec.TokenHash,
                                        args.pollID, args.earningAmountPaisa, now)),
                   response |-> Ptr(ResponseRecord(rand.responseID.val, args.pollID,
                                        args.hexagonID, args.answers,
                                        args.responseTimeSeconds,
                                        args.userID \o args.deviceFingerprint,
                                        gen.token.rec.TokenHash, now)),
                   err |-> "nil"]

(* ResponseSplitter.SplitResponse (lines 505-550).  args are the seven     *)
(* arguments; rand.responseID and rand.salt are the two random draws;      *)
(* tokenNow and now are the clock when GeneratePayoutToken and then        *)
(* SplitResponse read it.                                                  *)
SplitResponse(args, rand, tokenNow, now) ==
    IF ~rand.responseID.ok
    THEN [identity |-> NilPtr, response |-> NilPtr, err |-> "rand"]
    ELSE LET gen == GeneratePayoutToken(args.userID, args.pollID,
                                        args.earningAmountPaisa, rand.salt, tokenNow)
         IN  IF gen.err # "nil"
             THEN [identity |-> NilPtr, response |-> NilPtr, err |-> gen.err]
             ELSE [identity |-> Ptr(IdentityRecord(args.userID, gen.token.rec.TokenHash,
                                        args.pollID, args.earningAmountPaisa, now)),
                   response |-> Ptr(ResponseRecord(rand.responseID.val, args.pollID,
                                        args.hexagonID, args.answers,
                                        args.responseTimeSeconds, args.deviceFingerprint,
                                        gen.token.rec.TokenHash, now)),
                   err |-> "nil"]

----------------------------------------------------------------------------
(* Constructors that take a key.  A key ([]byte) is a sequence of bytes;   *)
(* a nil slice is the empty sequence.                                      *)

(* The key length every constructor requires (lines 156, 381, 464).        *)
KeySize == 32

(* NewResponseAnonymizerWithKey (lines 155-160).                           *)
NewResponseAnonymizerWithKey(key) ==
    IF Len(key) # KeySize
    THEN [obj |-> NilPtr, err |-> "encryption key must be 32 bytes"]
    ELSE [obj |-> Ptr([encryptionKey |-> key]), err |-> "nil"]

(* Mutant: a key shorter than 32 bytes is accepted.                        *)
NewEncryptorAtMost(key) ==
    IF Len(key) > KeySize
    THEN [obj |-> NilPtr, err |-> "encryption key must be 32 bytes for AES-256"]
    ELSE [obj |-> Ptr([key |-> key]), err |-> "nil"]

(* NewEncryptor (lines 380-385).                                           *)
NewEncryptor(key) ==
    IF Len(key) # KeySize
    THEN [obj |-> NilPtr, err |-> "encryption key must be 32 bytes for AES-256"]
    ELSE [obj |-> Ptr([key |-> key]), err |-> "nil"]

(* hmac.Equal (line 469): same length and same bytes.                      *)
HmacEqual(a, b) == a = b

(* Mutant: the two keys are compared by their first byte only.             *)
NewResponseSplitterFirstByte(identityKey, responseKey) ==
    IF Len(identityKey) # KeySize \/ Len(responseKey) # KeySize
    THEN [obj |-> NilPtr, err |-> "both encryption keys must be 32 bytes"]
    ELSE IF HmacEqual(SubSeq(identityKey, 1, 1), SubSeq(responseKey, 1, 1))
    THEN [obj |-> NilPtr, err |-> "identity and response keys must be different"]
    ELSE [obj |-> Ptr([identityEncryptor |-> NewEncryptor(identityKey).obj,
                       responseEncryptor |-> NewEncryptor(responseKey).obj]),
          err |-> "nil"]

(* NewResponseSplitter (lines 463-480).                                    *)
NewResponseSplitter(identityKey, responseKey) ==
    IF Len(identityKey) # KeySize \/ Len(responseKey) # KeySize
    THEN [obj |-> NilPtr, err |-> "both encryption keys must be 32 bytes"]
    ELSE IF HmacEqual(identityKey, responseKey)
    THEN [obj |-> NilPtr, err |-> "identity and response keys must be different"]
    ELSE [obj |-> Ptr([identityEncryptor |-> NewEncryptor(identityKey).obj,
                       responseEncryptor |-> NewEncryptor(responseKey).obj]),
          err |-> "nil"]

----------------------------------------------------------------------------
(* The Encryptor (AES-256-GCM).  A plaintext, a key and a nonce are        *)
(* sequences of byte values.  A byte of a ciphertext is a record: a plain  *)
(* byte (kind "raw"), the encryption of byte idx of a plaintext under a    *)
(* key and a nonce (kind "enc"), or the authentication tag of a plaintext  *)
(* under a key and a nonce (kind "tag", the 16 tag bytes as one element);  *)
(* flipped marks a byte given another value than the one it had.  A strong *)
(* cipher is assumed: a byte decrypts, and a tag verifies, under the key   *)
(* and nonce that made it and under no other.                              *)

NonceSize == 12

RawByte(v) ==
    [kind |-> "raw", key |-> << >>, nonce |-> << >>, idx |-> 0, data |-> <<v>>, flipped |-> FALSE]

EncByte(key, nonce, i, b) ==
    [kind |-> "enc", key |-> key, nonce |-> nonce, idx |-> i, data |-> <<b>>, flipped |-> FALSE]

TagBlock(key, nonce, plaintext) ==
    [kind |-> "tag", key |-> key, nonce |-> nonce, idx |-> 0, data |-> plaintext, flipped |-> FALSE]

(* A []byte holding the byte values of seq.                                *)
ToBytes(seq) == [i \in 1 .. Len(seq) |-> RawByte(seq[i])]

(* A []byte result: nil, or a slice.                                       *)
NilBytes == [isNil |-> TRUE, bytes |-> << >>]
Bytes(b) == [isNil |-> FALSE, bytes |-> b]

(* aes.NewCipher succeeds for keys of 16, 24 and 32 bytes.                 *)
AesNewCipher(key) == Len(key) \in {16, 24, 32}

(* gcm.Seal(dst, nonce, plaintext, nil): dst, then the encrypted bytes,    *)
(* then the tag.                                                           *)
GcmSeal(key, dst, nonce, plaintext) ==
    dst \o [i \in 1 .. Len(plaintext) |-> EncByte(key, nonce, i, plaintext[i])]
        \o <<TagBlock(key, nonce, plaintext)>>

(* gcm.Open(nil, nonce, ciphertext, nil): the plaintext if ciphertext is   *)
(* what Seal made of it under this key and this nonce, else an error.      *)
GcmOpen(key, nonce, ciphertext) ==
    IF Len(ciphertext) = 0 THEN [ok |-> FALSE]
    ELSE LET tag == ciphertext[Len(ciphertext)]
         IN  IF /\ tag.kind = "tag"
                /\ ~tag.flipped
                /\ tag.key = key
                /\ nonce = ToBytes(tag.nonce)
                /\ ciphertext = GcmSeal(key, << >>, tag.nonce, tag.data)
             THEN [ok |-> TRUE, plaintext |-> tag.data]
             ELSE [ok |-> FALSE]

(* Mutant: the nonce is used but not prepended to the ciphertext.          *)
EncryptNoncePrefixDropped(e, plaintext, draw) ==
    IF ~AesNewCipher(e.key) \/ ~draw.ok
    THEN [ciphertext |-> NilBytes, err |-> "ErrEncryptionFailed"]
    ELSE [ciphertext |-> Bytes(GcmSeal(e.key, << >>, draw.val, plaintext)),
          err |-> "nil"]

(* Mutant: every call encrypts under the same all-zero nonce.              *)
EncryptFixedNonce(e, plaintext, draw) ==
    IF ~AesNewCipher(e.key) \/ ~draw.ok
    THEN [ciphertext |-> NilBytes, err |-> "ErrEncryptionFailed"]
    ELSE LET zero == [i \in 1 .. NonceSize |-> 0]
         IN  [ciphertext |-> Bytes(GcmSeal(e.key, ToBytes(zero), zero, plaintext)),
              err |-> "nil"]

(* Encryptor.Encrypt (lines 388-406); draw is what io.ReadFull read from   *)
(* rand.Reader into the nonce, or its error.                               *)
Encrypt(e, plaintext, draw) ==
    IF ~AesNewCipher(e.key) \/ ~draw.ok
    THEN [ciphertext |-> NilBytes, err |-> "ErrEncryptionFailed"]
    ELSE [ciphertext |-> Bytes(GcmSeal(e.key, ToBytes(draw.val), draw.val, plaintext)),
          err |-> "nil"]

(* The bytes of a []byte that are plain bytes or decrypt under this key.   *)
Readable(key, ciphertext) ==
    SelectSeq(ciphertext,
              LAMBDA c : c.kind = "raw" \/ (c.kind = "enc" /\ c.key = key /\ ~c.flipped))

(* Mutant: when the tag does not verify, what could be decrypted is        *)
(* returned with the error.                                                *)
DecryptReturnsPartial(e, ciphertext) ==
    IF ~AesNewCipher(e.key) \/ Len(ciphertext) < NonceSize
    THEN [plaintext |-> NilBytes, err |-> "ErrDecryptionFailed"]
    ELSE LET nonce == SubSeq(ciphertext, 1, NonceSize)
             rest == SubSeq(ciphertext, NonceSize + 1, Len(ciphertext))
             open == GcmOpen(e.key, nonce, rest)
         IN  IF ~open.ok
             THEN [plaintext |-> Bytes([i \in 1 .. Len(Readable(e.key, rest)) |->
                                          Readable(e.key, rest)[i].data[1]]),
                   err |-> "ErrDecryptionFailed"]
             ELSE [plaintext |-> [isNil |-> Len(open.plaintext) = 0,
                                  bytes |-> open.plaintext],
                   err |-> "nil"]

(* Encryptor.Decrypt (lines 409-432).  gcm.Open appends to a nil slice, so *)
(* an empty plaintext comes back as a nil slice.                           *)
Decrypt(e, ciphertext) ==
    IF ~AesNewCipher(e.key) \/ Len(ciphertext) < NonceSize
    THEN [plaintext |-> NilBytes, err |-> "ErrDecryptionFailed"]
    ELSE LET nonce == SubSeq(ciphertext, 1, NonceSize)
             rest == SubSeq(ciphertext, NonceSize + 1, Len(ciphertext))
             open == GcmOpen(e.key, nonce, rest)
         IN  IF ~open.ok
             THEN [plaintext |-> NilBytes, err |-> "ErrDecryptionFailed"]
             ELSE [plaintext |-> [isNil |-> Len(open.plaintext) = 0,
                                  bytes |-> open.plaintext],
                   err |-> "nil"]

(* A string that is, or is not, the standard base64 text of some bytes.    *)
(* base64.StdEncoding.EncodeToString and DecodeString (lines 440, 445).    *)
Base64Encode(bytes) == [valid |-> TRUE, bytes |-> bytes]
NotBase64 == [valid |-> FALSE, bytes |-> << >>]
Base64Decode(encoded) ==
    IF encoded.valid THEN [ok |-> TRUE, bytes |-> encoded.bytes] ELSE [ok |-> FALSE]

(* Encryptor.EncryptString (lines 435-441); the empty string returned with *)
(* an error is the base64 text of no bytes.                                *)
EncryptString(e, plaintext, draw) ==
    LET enc == Encrypt(e, plaintext, draw)
    IN  IF enc.err # "nil"
        THEN [encoded |-> Base64Encode(<< >>), err |-> enc.err]
        ELSE [encoded |-> Base64Encode(enc.ciphertext.bytes), err |-> "nil"]

(* Encryptor.DecryptString (lines 444-454); a string is its bytes.         *)
DecryptString(e, encoded) ==
    LET dec == Base64Decode(encoded)
    IN  IF ~dec.ok
        THEN [plaintext |-> << >>, err |-> "ErrDecryptionFailed"]
        ELSE LET res == Decrypt(e, dec.bytes)
             IN  IF res.err # "nil"
                 THEN [plaintext |-> << >>, err |-> res.err]
                 ELSE [plaintext |-> res.plaintext.bytes, err |-> "nil"]

----------------------------------------------------------------------------
(* ValidateSeparation.  An error is a record: nil, or the sentinel it      *)
(* wraps (wraps = "none" for an error made by errors.New) and its text.    *)

NilError == [isNil |-> TRUE, wraps |-> "none", text |-> ""]

(* errors.New(text).                                                       *)
ErrorsNew(text) == [isNil |-> FALSE, wraps |-> "none", text |-> text]

(* fmt.Errorf("%w: " + text, sentinel).                                    *)
Errorf(sentinel, text) == [isNil |-> FALSE, wraps |-> sentinel, text |-> text]

(* errors.Is(err, sentinel).                                               *)
ErrorsIs(err, sentinel) == ~err.isNil /\ err.wraps = sentinel

(* Mutant: shared HSM keys are not looked at.                              *)
ValidateSeparationIgnoresHSM(guarantee) ==
    IF guarantee.IdentityDBProject = "" \/ guarantee.ResponseDBProject = ""
    THEN ErrorsNew("both database projects must be specified")
    ELSE IF guarantee.IdentityDBProject = guarantee.ResponseDBProject
    THEN Errorf("ErrSeparationViolation",
                "Identity and Response DBs must be in separate GCP projects")
    ELSE IF guarantee.ForeignKeyExists
    THEN Errorf("ErrSeparationViolation",
                "No foreign key may exist between Identity and Response DBs")
    ELSE IF guarantee.SharedEncryptionKey
    THEN Errorf("ErrSeparationViolation",
                "Identity and Response DBs must use separate encryption keys")
    ELSE NilError

(* ValidateSeparation (lines 350-372).                                     *)
ValidateSeparation(guarantee) ==
    IF guarantee.IdentityDBProject = "" \/ guarantee.ResponseDBProject = ""
    THEN ErrorsNew("both database projects must be specified")
    ELSE IF guarantee.IdentityDBProject = guarantee.ResponseDBProject
    THEN Errorf("ErrSeparationViolation",
                "Identity and Response DBs must be in separate GCP projects")
    ELSE IF guarantee.ForeignKeyExists
    THEN Errorf("ErrSeparationViolation",
                "No foreign key may exist between Identity and Response DBs")
    ELSE IF guarantee.SharedEncryptionKey
    THEN Errorf("ErrSeparationViolation",
                "Identity and Response DBs must use separate encryption keys")
    ELSE IF ~guarantee.SeparateHSMKeys
    THEN Errorf("ErrSeparationViolation",
                "HSM keys must be separate for each database")
    ELSE NilError

----------------------------------------------------------------------------
(* sync.RWMutex and the goroutines that share an object.  A lock is a      *)
(* record: w is the writer that has called Lock and holds or awaits the    *)
(* lock (0 for none), held tells whether that writer holds it, and r[p] is *)
(* the number of read locks goroutine p holds.  As in Go, a writer that    *)
(* has called Lock keeps later RLock calls waiting until it has unlocked.  *)

MaxCallers == 2

Callers == 1 .. MaxCallers

RWFree == [w |-> 0, held |-> FALSE, r |-> [p \in Callers |-> 0]]

(* Lock, first half: the writer gets in line and readers are kept out.     *)
CanLockBegin(rw) == rw.w = 0
LockBegin(rw, p) == [rw EXCEPT !.w = p]

(* Lock, second half: the readers have left and the writer holds the lock. *)
CanLockEnd(rw, p) == rw.w = p /\ ~rw.held /\ \A q \in Callers : rw.r[q] = 0
LockEnd(rw) == [rw EXCEPT !.held = TRUE]

Unlock(rw) == [rw EXCEPT !.w = 0, !.held = FALSE]

CanRLock(rw) == rw.w = 0
RLock(rw, p) == [rw EXCEPT !.r[p] = @ + 1]
RUnlock(rw, p) == [rw EXCEPT !.r[p] = @ - 1]

(* Mutant: the lock is released on the success path only.                  *)
UnlockOnSuccessOnly(rw, ret) == IF ret.err = "nil" THEN Unlock(rw) ELSE rw

(* defer a.mu.Unlock() (line 249): runs at every return of                 *)
(* AggregateResponses, whatever it returns.                                *)
DeferredUnlock(rw, ret) == Unlock(rw)

(* No caller of the shared Aggregator has started.                         *)
LockIdle ==
    /\ aggMu = RWFree
    /\ aggPc = [p \in Callers |-> "idle"]
    /\ aggArg = [p \in Callers |-> << >>]
    /\ aggRet = [p \in Callers |-> [called |-> FALSE]]

----------------------------------------------------------------------------
(* Package blackout (src/unnamed/part_000): elections, their blackout      *)
(* windows, the Checker and its overrides.  An instant is a number of      *)
(* hours; time.Time{} is ZeroTime, an instant before every other one.      *)

BlackoutDuration == 48

RequiredApprovals == 3

DefaultPollingEndHour == 18

HoursPerDay == 24

ZeroTime == 0 - HoursPerDay

(* time.Time.After and time.Time.Before: both strict.                      *)
After(t, u) == t > u
Before(t, u) == t < u

(* time.Date(year, month, day of t, hour, 0, ...).                         *)
DateAtHour(t, hour) == t - (t % HoursPerDay) + hour

(* time.Time.Hour.                                                         *)
Hour(t) == t % HoursPerDay

containsInt(slice, val) == \E i \in DOMAIN slice : slice[i] = val

FirstIndex(S) == CHOOSE i \in S : \A j \in S : i <= j

(* CalculateBlackoutPeriod (lines 395-413), minutes left out.              *)
CalculateBlackoutPeriod(pollingDate, pollingEndHour) ==
    LET pollingEnd == DateAtHour(pollingDate, pollingEndHour)
    IN  [start |-> pollingEnd - BlackoutDuration, end |-> pollingEnd]

(* CreateElection (lines 416-435): a legacy single-phase election.         *)
CreateElection(id, name, pollingDate, acIDs) ==
    LET b == CalculateBlackoutPeriod(pollingDate, DefaultPollingEndHour)
    IN  [ID |-> id, Name |-> name, TotalPhases |-> 1, Phases |-> << >>,
         PollingDate |-> pollingDate,
         BlackoutStartsAt |-> b.start, BlackoutEndsAt |-> b.end,
         ACIDs |-> acIDs]

(* CreateMultiPhaseElection (lines 438-467) for 1 .. MaxPhases phases: the *)
(* legacy fields keep their zero values.                                   *)
CreateMultiPhaseElection(id, name, phases) ==
    [ID |-> id, Name |-> name, TotalPhases |-> Len(phases),
     Phases |->
        [i \in DOMAIN phases |->
            LET b == CalculateBlackoutPeriod(phases[i].PollingDate,
                                             Hour(phases[i].PollingEndTime))
            IN  [phases[i] EXCEPT !.BlackoutStart = b.start,
                                  !.BlackoutEnd = b.end]],
     PollingDate |-> ZeroTime,
     BlackoutStartsAt |-> ZeroTime, BlackoutEndsAt |-> ZeroTime,
     ACIDs |-> << >>]

(* Election.GetBlackoutForAC (lines 125-141).                              *)
ElectionGetBlackoutForAC(e, acID) ==
    LET hits == {i \in DOMAIN e.Phases : containsInt(e.Phases[i].ACIDs, acID)}
    IN  IF hits # {}
        THEN [start |-> e.Phases[FirstIndex(hits)].BlackoutStart,
              end |-> e.Phases[FirstIndex(hits)].BlackoutEnd,
              found |-> TRUE]
        ELSE IF Len(e.ACIDs) = 0 \/ containsInt(e.ACIDs, acID)
        THEN [start |-> e.BlackoutStartsAt, end |-> e.BlackoutEndsAt,
              found |-> TRUE]
        ELSE [start |-> ZeroTime, end |-> ZeroTime, found |-> FALSE]

(* Election.IsACInScope (lines 144-162).                                   *)
IsACInScope(e, acID) ==
    IF \E i \in DOMAIN e.Phases : containsInt(e.Phases[i].ACIDs, acID)
    THEN TRUE
    ELSE IF Len(e.Phases) = 0
    THEN IF Len(e.ACIDs) = 0 THEN TRUE ELSE containsInt(e.ACIDs, acID)
    ELSE FALSE

(* A Checker is a record [elections, overrides, requested]: c.elections,   *)
(* c.overrides (a map from keys to addresses of Override values) and the   *)
(* Override values by address.                                             *)

(* fmt.Sprintf("%s:%d", electionID, acID) (line 552): the decimal digits   *)
(* hold no colon, so the pair can be read back from the key.               *)
OverrideKey(electionID, acID) == <<electionID, acID>>

NoOverrides == [k \in {} |-> 0]

(* NewChecker (lines 172-177).                                             *)
NewChecker(es) ==
    [elections |-> es, overrides |-> NoOverrides, requested |-> << >>]

(* Checker.AddElection (lines 180-184).                                    *)
AddElection(c, election) ==
    [c EXCEPT !.elections = Append(c.elections, election)]

(* Checker.RemoveElection (lines 187-198): the first election with the id. *)
RemoveElection(c, electionID) ==
    LET hits == {i \in DOMAIN c.elections : c.elections[i].ID = electionID}
    IN  IF hits = {}
        THEN c
        ELSE [c EXCEPT !.elections =
                SubSeq(c.elections, 1, FirstIndex(hits) - 1)
                \o SubSeq(c.elections, FirstIndex(hits) + 1, Len(c.elections))]

(* Mutant: two approvals are enough.                                       *)
IsFullyApprovedByTwo(o) ==
    LET approvals ==
            (IF o.Approval1At.isNil THEN 0 ELSE 1)
            + (IF o.Approval2At.isNil THEN 0 ELSE 1)
            + (IF o.LegalApprovalAt.isNil THEN 0 ELSE 1)
    IN  approvals >= RequiredApprovals - 1

(* Override.IsFullyApproved (lines 493-505).                               *)
IsFullyApproved(o) ==
    LET approvals ==
            (IF o.Approval1At.isNil THEN 0 ELSE 1)
            + (IF o.Approval2At.isNil THEN 0 ELSE 1)
            + (IF o.LegalApprovalAt.isNil THEN 0 ELSE 1)
    IN  approvals >= RequiredApprovals

(* Checker.RequestOverride (lines 508-525): the new Override, or nil and   *)
(* an error.                                                               *)
RequestOverride(electionID, acIDs, reason, requestedBy, overrideStart, overrideEnd, now) ==
    IF electionID = "" \/ Len(acIDs) = 0 \/ reason = "" \/ requestedBy = ""
    THEN [override |-> NilPtr, err |-> "all fields are required"]
    ELSE [override |->
            Ptr([ElectionID |-> electionID, ACIDs |-> acIDs,
                 Reason |-> reason, RequestedBy |-> requestedBy,
                 RequestedAt |-> now,
                 Approval1By |-> "", Approval1At |-> NilPtr,
                 Approval2By |-> "", Approval2At |-> NilPtr,
                 LegalApprovalBy |-> "", LegalApprovalAt |-> NilPtr,
                 Approved |-> FALSE,
                 OverrideStart |-> overrideStart,
                 OverrideEnd |-> overrideEnd]),
          err |-> "nil"]

ApproverTypes == {"founder_1", "founder_2", "legal"}

(* The switch of ApproveOverride (lines 531-543) for a valid type.         *)
RecordApproval(o, approverType, approverID, now) ==
    CASE approverType = "founder_1" ->
            [o EXCEPT !.Approval1By = approverID, !.Approval1At = Ptr(now)]
      [] approverType = "founder_2" ->
            [o EXCEPT !.Approval2By = approverID, !.Approval2At = Ptr(now)]
      [] approverType = "legal" ->
            [o EXCEPT !.LegalApprovalBy = approverID,
                      !.LegalApprovalAt = Ptr(now)]

(* Checker.ApproveOverride (lines 528-559) on the Override at address a:   *)
(* the error and the Checker afterwards.                                   *)
ApproveOverride(c, a, approverType, approverID, now) ==
    IF approverType \notin ApproverTypes
    THEN [err |-> "invalid approver type", c |-> c]
    ELSE LET o == RecordApproval(c.requested[a], approverType, approverID, now)
             keys == {OverrideKey(o.ElectionID, o.ACIDs[i]) : i \in DOMAIN o.ACIDs}
         IN  IF IsFullyApproved(o)
             THEN [err |-> "nil",
                   c |-> [c EXCEPT
                            !.requested[a] = [o EXCEPT !.Approved = TRUE],
                            !.overrides =
                                [k \in DOMAIN c.overrides \cup keys |->
                                    IF k \in keys THEN a ELSE c.overrides[k]]]]
             ELSE [err |-> "nil", c |-> [c EXCEPT !.requested[a] = o]]

(* Checker.hasActiveOverride (lines 562-575).                              *)
hasActiveOverride(c, acID, at) ==
    \E k \in DOMAIN c.overrides :
        LET override == c.requested[c.overrides[k]]
        IN  /\ override.Approved
            /\ containsInt(override.ACIDs, acID)
            /\ After(at, override.OverrideStart)
            /\ Before(at, override.OverrideEnd)

(* The body of the loops of lines 210-223 and 285-298.                     *)
InBlackout(election, acID, at) ==
    /\ IsACInScope(election, acID)
    /\ ElectionGetBlackoutForAC(election, acID).found
    /\ After(at, ElectionGetBlackoutForAC(election, acID).start)
    /\ Before(at, ElectionGetBlackoutForAC(election, acID).end)

(* Mutant: the window includes its start instant.                          *)
IsBlackoutActiveFromStart(c, acID, at) ==
    IF hasActiveOverride(c, acID, at)
    THEN FALSE
    ELSE \E i \in DOMAIN c.elections :
            \/ InBlackout(c.elections[i], acID, at)
            \/ /\ IsACInScope(c.elections[i], acID)
               /\ at = ElectionGetBlackoutForAC(c.elections[i], acID).start

(* Checker.IsBlackoutActive (lines 201-225).                               *)
IsBlackoutActive(c, acID, at) ==
    IF hasActiveOverride(c, acID, at)
    THEN FALSE
    ELSE \E i \in DOMAIN c.elections : InBlackout(c.elections[i], acID, at)

(* Checker.GetBlackoutForAC (lines 281-300): the first election in         *)
(* blackout for the constituency, or nil.                                  *)
CheckerGetBlackoutForAC(c, acID, at) ==
    LET hits == {i \in DOMAIN c.elections : InBlackout(c.elections[i], acID, at)}
    IN  IF hits = {} THEN NilPtr ELSE Ptr(c.elections[FirstIndex(hits)])

(* The loop of lines 364-375 from election i on: the upcoming window with  *)
(* the earliest start, the first one among equals.                         *)
RECURSIVE NextUpcoming(_, _, _, _, _)
NextUpcoming(es, i, acID, now, info) ==
    IF i > Len(es)
    THEN info
    ELSE LET b == ElectionGetBlackoutForAC(es[i], acID)
         IN  IF b.found /\ After(b.start, now)
                /\ (info.NextStart.isNil \/ Before(b.start, info.NextStart.rec))
             THEN NextUpcoming(es, i + 1, acID, now,
                    [info EXCEPT !.NextStart = Ptr(b.start),
                                 !.NextEnd = Ptr(b.end),
                                 !.NextElection = es[i].Name])
             ELSE NextUpcoming(es, i + 1, acID, now, info)

(* One turn of the loop of lines 350-378 of GetBlackoutsForACs.            *)
BlackoutInfoFor(c, acID, now) ==
    LET election == CheckerGetBlackoutForAC(c, acID, now)
        current ==
            IF IsBlackoutActive(c, acID, now) /\ ~election.isNil
            THEN [ElectionName |-> election.rec.Name,
                  EndsAt |-> Ptr(ElectionGetBlackoutForAC(election.rec, acID).end)]
            ELSE [ElectionName |-> "", EndsAt |-> NilPtr]
    IN  NextUpcoming(c.elections, 1, acID, now,
            [ACID |-> acID, IsActive |-> IsBlackoutActive(c, acID, now),
             ElectionName |-> current.ElectionName, EndsAt |-> current.EndsAt,
             NextStart |-> NilPtr, NextEnd |-> NilPtr, NextElection |-> ""])

(* Checker.GetBlackoutsForACs (lines 344-381): the map it returns.         *)
GetBlackoutsForACs(c, acIDs, now) ==
    [acID \in {acIDs[i] : i \in DOMAIN acIDs} |-> BlackoutInfoFor(c, acID, now)]

(* The entries ACBlackoutSchedule appends (lines 720-733), in the order    *)
(* of c.elections.                                                         *)
RECURSIVE ScheduleEntries(_, _, _)
ScheduleEntries(es, i, acID) ==
    IF i > Len(es)
    THEN << >>
    ELSE LET b == ElectionGetBlackoutForAC(es[i], acID)
             rest == ScheduleEntries(es, i + 1, acID)
         IN  IF b.found
             THEN <<[ElectionName |-> es[i].Name, Start |-> b.start, End |-> b.end]>>
                  \o rest
             ELSE rest

(* sort.Slice by Start (lines 736-738): the sort is not stable, so every   *)
(* arrangement of the entries in which no start precedes an earlier one.   *)
SortedByStart(entries) ==
    LET n == Len(entries)
        perms == {p \in [1 .. n -> 1 .. n] : \A i, j \in 1 .. n : p[i] = p[j] => i = j}
    IN  {[i \in 1 .. n |-> entries[p[i]]] : p \in
            {q \in perms : \A i, j \in 1 .. n :
                i < j => ~Before(entries[q[j]].Start, entries[q[i]].Start)}}

(* Checker.ACBlackoutSchedule (lines 706-741): the schedules it may return. *)
ACBlackoutSchedule(c, acID) == SortedByStart(ScheduleEntries(c.elections, 1, acID))

(* The Checker of the sequential calls.                                    *)
TheChecker ==
    [elections |-> elections, overrides |-> overrides, requested |-> requested]

(* No blackout operation has been called.                                  *)
BlkIdle ==
    /\ elections = << >>
    /\ overrides = NoOverrides
    /\ requested = << >>
    /\ blkOut = [called |-> FALSE]

----------------------------------------------------------------------------
(* Package civicscore (src/anonymization/anonymization_test.go, from line  *)
(* 774 on).  Scores are Go ints; time is in days.                          *)

MinScore == 0
MaxScore == 100
DefaultStartScore == 20
TopResponderThreshold == 60
PowerUserThreshold == 85
ActiveThreshold == 31
InactivityDays == 60
DecayPerWeek == 2
DaysPerWeek == 7

(* Points (lines 820-841).                                                 *)
Points ==
    ("kyc_completed" :> 10) @@ ("booth_challenge_passed" :> 15)
    @@ ("issue_verified" :> 5) @@ ("verification_given" :> 2)
    @@ ("poll_completed" :> 1) @@ ("issue_fixed" :> 10)
    @@ ("account_age_30" :> 5) @@ ("account_age_90" :> 5)
    @@ ("account_age_180" :> 5) @@ ("fake_verification" :> 0 - 10)
    @@ ("fake_issue_reported" :> 0 - 15) @@ ("low_quality_response" :> 0 - 5)
    @@ ("inactive_60_days" :> 0 - 10) @@ ("daily_login" :> 1)
    @@ ("streak_bonus_7_days" :> 3) @@ ("streak_bonus_30_days" :> 10)
    @@ ("referral_bonus" :> 5) @@ ("first_issue_bonus" :> 5)
    @@ ("first_poll_bonus" :> 3) @@ ("top_contributor" :> 15)

(* NewCalculator (lines 951-955).                                          *)
NewCalculator == [customPoints |-> [k \in {} |-> 0]]

(* Calculator.GetPoints (lines 967-978).                                   *)
GetPoints(c, action) ==
    IF action \in DOMAIN c.customPoints THEN c.customPoints[action]
    ELSE IF action \in DOMAIN Points THEN Points[action]
    ELSE 0

(* Mutant: no upper limit.                                                 *)
clampBelowOnly(value, min, max) == IF value < min THEN min ELSE value

(* clamp (lines 1352-1360).                                                *)
clamp(value, min, max) ==
    IF value < min THEN min
    ELSE IF value > max THEN max
    ELSE value

(* What one turn of the loop of CalculateWithActions adds (lines           *)
(* 991-998).                                                               *)
ActionPoints(c, action) ==
    IF action.Count > 0
    THEN WrapInt(GetPoints(c, action.Type) * action.Count)
    ELSE GetPoints(c, action.Type)

RECURSIVE SumActions(_, _, _, _)
SumActions(c, score, actions, i) ==
    IF i > Len(actions)
    THEN score
    ELSE SumActions(c, WrapInt(score + ActionPoints(c, actions[i])), actions, i + 1)

(* Calculator.CalculateWithActions (lines 987-1003).                       *)
CalculateWithActions(c, currentScore, actions) ==
    clamp(SumActions(c, currentScore, actions, 1), MinScore, MaxScore)

(* Calculate (lines 981-984).                                              *)
Calculate(currentScore, actions) ==
    CalculateWithActions(NewCalculator, currentScore, actions)

(* Calculator.ApplyAction (lines 1012-1026).                               *)
CalculatorApplyAction(c, currentScore, actionType, count) ==
    IF GetPoints(c, actionType) = 0
    THEN [newScore |-> currentScore, delta |-> 0]
    ELSE LET points == IF count > 0 THEN WrapInt(GetPoints(c, actionType) * count)
                       ELSE GetPoints(c, actionType)
             newScore == clamp(WrapInt(currentScore + points), MinScore, MaxScore)
         IN  [newScore |-> newScore, delta |-> WrapInt(newScore - currentScore)]

(* CalculateSingle (lines 1006-1009).                                      *)
CalculateSingle(currentScore, actionType, count) ==
    CalculatorApplyAction(NewCalculator, currentScore, actionType, count)

(* ApplyDecay (lines 1029-1046).                                           *)
ApplyDecay(currentScore, lastActiveAt, now) ==
    LET daysSinceActive == now - lastActiveAt
        weeksInactive == (daysSinceActive - InactivityDays) \div DaysPerWeek
    IN  IF daysSinceActive < InactivityDays
        THEN [newScore |-> currentScore, weeksDecayed |-> 0]
        ELSE IF weeksInactive <= 0
        THEN [newScore |-> currentScore, weeksDecayed |-> 0]
        ELSE [newScore |-> clamp(WrapInt(currentScore - weeksInactive * DecayPerWeek),
                                 MinScore, MaxScore),
              weeksDecayed |-> weeksInactive]

(* GetLevel (lines 1094-1105).                                             *)
GetLevel(score) ==
    IF score >= PowerUserThreshold THEN "power_user"
    ELSE IF score >= TopResponderThreshold THEN "top_responder"
    ELSE IF score >= ActiveThreshold THEN "active"
    ELSE "new_user"

(* NewUserScore (lines 1293-1304).                                         *)
NewUserScore(userID, now) ==
    [UserID |-> userID, Score |-> DefaultStartScore, Level |-> "new_user",
     LastActiveAt |-> now, AccountCreatedAt |-> now, UpdatedAt |-> now]

(* UserScore.UpdateLevel (lines 1307-1309).                                *)
UpdateLevel(u) == [u EXCEPT !.Level = GetLevel(u.Score)]

(* UserScore.ApplyAction (lines 1317-1325).                                *)
UserScoreApplyAction(u, action, count, now) ==
    [u |-> [UpdateLevel([u EXCEPT !.Score = CalculateSingle(u.Score, action, count).newScore])
                EXCEPT !.LastActiveAt = now, !.UpdatedAt = now],
     delta |-> CalculateSingle(u.Score, action, count).delta]

(* UserScore.ApplyDecay (lines 1328-1335).                                 *)
UserScoreApplyDecay(u, now) ==
    LET r == ApplyDecay(u.Score, u.LastActiveAt, now)
        scored == [u EXCEPT !.Score = r.newScore]
    IN  [u |-> IF r.weeksDecayed > 0
               THEN [UpdateLevel(scored) EXCEPT !.UpdatedAt = now]
               ELSE scored,
         weeksDecayed |-> r.weeksDecayed]

(* No civic-score operation has been called on the new user.               *)
ScoreIdle ==
    /\ today = 0
    /\ user = NewUserScore("user-1", 0)
    /\ scoreOut = [called |-> FALSE]

----------------------------------------------------------------------------
(* Package boothmatching (src/booth-matching/matcher.go): the Matcher's    *)
(* booths and indices.  Booth indices start at 0, as in the slice.         *)

(* DefaultMatcherConfig (lines 86-94), the confidence and candidate limits *)
(* left out.                                                               *)
DefaultMatcherConfig ==
    [EnablePhonetic |-> TRUE, EnableKeywordMatch |-> TRUE, CaseSensitive |-> FALSE]

NoIndex == [k \in {} |-> << >>]

(* m[key] = append(m[key], idx).                                           *)
IndexAppend(index, key, idx) ==
    [k \in DOMAIN index \cup {key} |->
        IF k = key
        THEN (IF key \in DOMAIN index THEN Append(index[key], idx) ELSE <<idx>>)
        ELSE index[k]]

RECURSIVE IndexAppendAll(_, _, _, _)
IndexAppendAll(index, keys, i, idx) ==
    IF i > Len(keys)
    THEN index
    ELSE IndexAppendAll(IndexAppend(index, keys[i], idx), keys, i + 1, idx)

(* NewMatcherWithConfig (lines 102-149) for no booths.                     *)
NewMatcherWithConfig(cfg) ==
    [booths |-> << >>, boothsByAC |-> NoIndex, exactIndex |-> NoIndex,
     phoneticIndex |-> NoIndex, keywordIndex |-> NoIndex, config |-> cfg]

(* NewMatcher (lines 97-99).                                               *)
NewMatcher == NewMatcherWithConfig(DefaultMatcherConfig)

(* Matcher.AddBooth (lines 405-436) under its lock, for a booth whose      *)
(* normalized name, phonetic code and keywords are filled in (so that      *)
(* lines 410-421 leave it as it is).                                       *)
AddBooth(m, booth) ==
    LET idx == Len(m.booths)
    IN  [m EXCEPT
            !.booths = Append(m.booths, booth),
            !.boothsByAC = IndexAppend(m.boothsByAC, booth.ACID, idx),
            !.exactIndex = IndexAppend(m.exactIndex, booth.NameNormalized, idx),
            !.phoneticIndex =
                IF booth.NamePhonetic # ""
                THEN IndexAppend(m.phoneticIndex, booth.NamePhonetic, idx)
                ELSE m.phoneticIndex,
            !.keywordIndex = IndexAppendAll(m.keywordIndex, booth.Keywords, 1, idx)]

(* Matcher.GetBoothCount (lines 391-395).                                  *)
GetBoothCount(m) == Len(m.booths)

(* The tests of Match before it calls MatchWithCandidates (lines 156-162). *)
MatchReturnsEarly(m, userInput) == Len(m.booths) = 0 \/ userInput = ""

(* No goroutine has called the shared Matcher.                             *)
MatcherIdle ==
    /\ matcher = NewMatcher
    /\ mMu = RWFree
    /\ mPc = [p \in Callers |-> "idle"]
    /\ mCall = [p \in Callers |-> [op |-> "", input |-> "", left |-> 0]]
    /\ mAdded = 0

(* No goroutine has called the shared Checker.                             *)
ChkIdle ==
    /\ chkMu = RWFree
    /\ chkPc = [p \in Callers |-> "idle"]
    /\ chkCall = [p \in Callers |-> [op |-> "", a |-> 0, approverType |-> "", active |-> FALSE]]

----------------------------------------------------------------------------
(* Inputs.                                                                 *)

(* AggregationConfig values: the default (10, 10), the tests' (10, 5) and  *)
(* (20, 5), and (20, 10), each with noise on and off.                      *)
KValues == {KAnonymityThreshold, 2 * KAnonymityThreshold}
MinValues == {MinAggregationSize \div 2, MinAggregationSize}
AggEpsValues == {DifferentialPrivacyEpsilon}

Configs ==
    [KAnonymityThreshold : KValues, DPEpsilon : AggEpsValues,
     MinAggregationSize : MinValues, ApplyNoise : BOOLEAN]

(* DefaultAggregationConfig (lines 216-223).                               *)
DefaultAggregationConfig ==
    [KAnonymityThreshold |-> KAnonymityThreshold,
     DPEpsilon |-> DifferentialPrivacyEpsilon,
     MinAggregationSize |-> MinAggregationSize,
     ApplyNoise |-> TRUE]

(* The answers a response can carry: heterogeneous values, two of which    *)
(* ("5" and 5) print alike, and a question only some responses answer.     *)
AnswerKinds ==
    << ("q1" :> StrVal("option_a")) @@ ("q2" :> StrVal("5")),
       ("q1" :> StrVal("option_b")) @@ ("q2" :> IntVal(5)) @@ ("q3" :> BoolVal(TRUE)) >>

PollIDs == {"poll-1"}

(* The rounded noises the aggregator's draws are taken from: the most      *)
(* negative one and a small positive one.                                  *)
SampleDraws(eps) ==
    {d \in RoundedNoise(eps) : d \in {0 - NoiseBound(eps), 1}}

NotCalled == [called |-> FALSE]

(* No caller of a shared object has started and no operation of another    *)
(* package has been called.                                                *)
RestIdle ==
    /\ LockIdle
    /\ BlkIdle
    /\ ChkIdle
    /\ ScoreIdle
    /\ MatcherIdle

(* No token, key, cipher or separation operation has been called.          *)
OthersIdle ==
    /\ issued = NotCalled
    /\ checked = NotCalled
    /\ built = NotCalled
    /\ sealedPrev = NotCalled
    /\ sealed = NotCalled
    /\ opened = NotCalled
    /\ sepOut = NotCalled
    /\ RestIdle

----------------------------------------------------------------------------
(* Actions of the aggregation.                                             *)

Init ==
    /\ config \in Configs
    /\ responses = << >>
    /\ aggOut = NotCalled
    /\ dpOut = NotCalled
    /\ clock = 0
    /\ splitPrev = NotCalled
    /\ splitLast = NotCalled
    /\ OthersIdle

IDs(batch) == {batch[i].ID : i \in 1 .. Len(batch)}

(* The response store collects one more response (a fresh response id).    *)
(* Batches are enumerated in the order of AnswerKinds, with at most        *)
(* MaxMinor responses of each kind after the first.                        *)
AddResponse ==
    /\ ~aggOut.called
    /\ Len(responses) < MaxBatch
    /\ \E k \in 1 .. Len(AnswerKinds) :
          /\ Len(responses) > 0 => \E j \in 1 .. k :
                 AnswerKinds[j] = responses[Len(responses)].Answers
          /\ k > 1 => Cardinality({i \in 1 .. Len(responses) :
                          responses[i].Answers = AnswerKinds[k]}) < MaxMinor
          /\ responses' = Append(responses,
                 [ID |-> "resp-" \o Itoa(Len(responses) + 1),
                  PollID |-> "poll-1",
                  HexagonID |-> "hex-1",
                  Answers |-> AnswerKinds[k]])
    /\ UNCHANGED <<config, aggOut, dpOut, clock, splitPrev, splitLast,
                   tokenVars, encVars, sepOut,
                   restVars>>

(* The batch holds its first response once more (same response id).        *)
AddDuplicate ==
    /\ ~aggOut.called
    /\ Len(responses) >= 1
    /\ Len(responses) < MaxBatch
    /\ Cardinality(IDs(responses)) = 1
    /\ Len(responses) - 1 < MaxDup
    /\ responses' = Append(responses, responses[1])
    /\ UNCHANGED <<config, aggOut, dpOut, clock, splitPrev, splitLast,
                   tokenVars, encVars, sepOut,
                   restVars>>

(* Aggregator.AggregateResponses (lines 247-301).                          *)
AggregateResponses ==
    /\ ~aggOut.called
    /\ \E pollID \in PollIDs :
          LET count == Len(responses)
              counts == CountResponses(EmptyMap, responses, 1)
              eps == EffectiveEpsilon(config.DPEpsilon)
              noised == ~Insufficient(config, count) /\ NoiseCondition(config, count)
          IN  \E draws \in [IF noised THEN Cells(counts) ELSE {} -> SampleDraws(eps)] :
                 aggOut' = [called |-> TRUE, pollID |-> pollID, draws |-> draws,
                            ret |-> AggregateReturn(config, count, counts, pollID,
                                                    NilPtr, NilPtr, draws, clock)]
    /\ UNCHANGED <<config, responses, dpOut, clock, splitPrev, splitLast,
                   tokenVars, encVars, sepOut,
                   restVars>>

NextAggregator == AddResponse \/ AddDuplicate \/ AggregateResponses

SpecAggregator == Init /\ [][NextAggregator]_vars

----------------------------------------------------------------------------
(* Direct calls of ApplyDifferentialPrivacy.                               *)

MaxNegCount == 3
MaxOver == 3

DPCounts ==
    ((0 - MaxNegCount) .. (LargeSampleThreshold + MaxOver)) \cup {IntMin, IntMax}

(* epsilon: negative, zero, 0.001 (a noise beyond the range of int), 0.5   *)
(* and 1.0.                                                                *)
EpsValues == {0 - DifferentialPrivacyEpsilon, 0, 1, DifferentialPrivacyEpsilon \div 2,
              DifferentialPrivacyEpsilon}

InitDP ==
    /\ config = DefaultAggregationConfig
    /\ responses = << >>
    /\ aggOut = NotCalled
    /\ dpOut = NotCalled
    /\ clock = 0
    /\ splitPrev = NotCalled
    /\ splitLast = NotCalled
    /\ OthersIdle

(* ApplyDifferentialPrivacy (lines 305-324).                               *)
CallApplyDifferentialPrivacy ==
    /\ ~dpOut.called
    /\ \E count \in DPCounts, epsilon \in EpsValues :
          \E draw \in RoundedNoise(EffectiveEpsilon(epsilon)) :
             dpOut' = [called |-> TRUE, count |-> count, epsilon |-> epsilon,
                       draw |-> draw,
                       out |-> ApplyDifferentialPrivacy(count, epsilon, draw)]
    /\ UNCHANGED <<config, responses, aggOut, clock, splitPrev, splitLast,
                   tokenVars, encVars, sepOut,
                   restVars>>

NextDP == CallApplyDifferentialPrivacy

SpecDP == InitDP /\ [][NextDP]_vars

----------------------------------------------------------------------------
(* Calls of SplitResponse.                                                 *)

UserIDs == {"", "user-123", "user-456"}
SplitPollIDs == {"", "poll-456"}
RandomStrings == {"Xa", "Yb"}

SplitArgs ==
    [userID : UserIDs,
     pollID : SplitPollIDs,
     hexagonID : {"hex-789"},
     answers : {AnswerKinds[k] : k \in 1 .. Len(AnswerKinds)},
     responseTimeSeconds : {45},
     deviceFingerprint : {"device-fingerprint-abc"},
     earningAmountPaisa : {1000}]

RandDraws == {RandOK(str) : str \in RandomStrings} \cup {RandErr}

InitSplitter ==
    /\ config = DefaultAggregationConfig
    /\ responses = << >>
    /\ aggOut = NotCalled
    /\ dpOut = NotCalled
    /\ clock = 0
    /\ splitPrev = NotCalled
    /\ splitLast = NotCalled
    /\ OthersIdle

(* Time passes.                                                            *)
Tick ==
    /\ clock < MaxClock
    /\ clock' = clock + 1
    /\ UNCHANGED <<config, responses, aggOut, dpOut, splitPrev, splitLast,
                   tokenVars, encVars, sepOut,
                   restVars>>

(* One call of SplitResponse; the call before it is kept in splitPrev.     *)
CallSplitResponse ==
    /\ \E args \in SplitArgs, rand \in [responseID : RandDraws, salt : RandDraws] :
          /\ splitLast' = [called |-> TRUE, args |-> args, rand |-> rand, now |-> clock,
                           ret |-> SplitResponse(args, rand, clock, clock)]
          /\ splitPrev' = splitLast
    /\ UNCHANGED <<config, responses, aggOut, dpOut, clock,
                   tokenVars, encVars, sepOut,
                   restVars>>

NextSplitter == Tick \/ CallSplitResponse

SpecSplitter == InitSplitter /\ [][NextSplitter]_vars

----------------------------------------------------------------------------
(* A payout token: issued by GeneratePayoutToken, presented to             *)
(* ValidatePayoutToken as time passes.                                     *)

(* The token is issued on day 0 .. MaxIssueDay and followed until MaxLate  *)
(* days after the latest expiry.                                           *)
MaxIssueDay == 1
MaxLate == 2

LastDay == MaxIssueDay + MaxTokenAge + MaxLate

TokenUserIDs == {"", "user-1"}
TokenPollIDs == {"poll-1"}
TokenAmounts == {100}
SaltDraws == {RandOK("Xa"), RandErr}

(* Tokens a caller can build by hand: with and without a hash and a poll   *)
(* id, expiring on day 0 or on day MaxTokenAge.                            *)
HandBuiltTokens ==
    {Ptr(t) : t \in [TokenHash : {"", "hash123"},
                      Amount : TokenAmounts,
                      PollID : {"", "poll-1"},
                      CreatedAt : {0},
                      ExpiresAt : {0, MaxTokenAge}]}

InitToken ==
    /\ config = DefaultAggregationConfig
    /\ responses = << >>
    /\ aggOut = NotCalled
    /\ dpOut = NotCalled
    /\ clock = 0
    /\ splitPrev = NotCalled
    /\ splitLast = NotCalled
    /\ OthersIdle

(* Time passes.                                                            *)
TickToken ==
    /\ clock < LastDay
    /\ clock' = clock + 1
    /\ UNCHANGED <<config, responses, aggOut, dpOut, splitPrev, splitLast,
                   tokenVars, encVars, sepOut,
                   restVars>>

(* One direct call of GeneratePayoutToken.                                 *)
CallGeneratePayoutToken ==
    /\ ~issued.called
    /\ clock <= MaxIssueDay
    /\ \E userID \in TokenUserIDs, pollID \in TokenPollIDs,
          amountPaisa \in TokenAmounts, salt \in SaltDraws :
          issued' = [called |-> TRUE, userID |-> userID, pollID |-> pollID,
                     amountPaisa |-> amountPaisa, salt |-> salt, now |-> clock,
                     ret |-> GeneratePayoutToken(userID, pollID, amountPaisa, salt, clock)]
    /\ UNCHANGED <<config, responses, aggOut, dpOut, clock, splitPrev, splitLast,
                   checked, encVars, sepOut,
                   restVars>>

(* The tokens that can be presented: nil, a hand-built one, or what        *)
(* GeneratePayoutToken returned.                                           *)
PresentedTokens ==
    {NilPtr} \cup HandBuiltTokens
        \cup (IF issued.called THEN {issued.ret.token} ELSE {})

(* One call of ValidatePayoutToken.                                        *)
CallValidatePayoutToken ==
    /\ \E token \in PresentedTokens :
          checked' = [called |-> TRUE, token |-> token, now |-> clock,
                      err |-> ValidatePayoutToken(token, clock)]
    /\ UNCHANGED <<config, responses, aggOut, dpOut, clock, splitPrev, splitLast,
                   issued, encVars, sepOut,
                   restVars>>

NextToken == TickToken \/ CallGeneratePayoutToken \/ CallValidatePayoutToken

SpecToken == InitToken /\ [][NextToken]_vars

----------------------------------------------------------------------------
(* Calls of the constructors that take a key.                              *)

(* A key of n bytes, all equal to b.                                       *)
FilledKey(n, b) == [i \in 1 .. n |-> b]

(* Keys of 32 bytes: one, and one that differs from it in the last byte    *)
(* only.                                                                   *)
GoodKeys ==
    {FilledKey(KeySize, 1),
     [FilledKey(KeySize, 1) EXCEPT ![KeySize] = 2]}

(* Keys of other lengths: nil, one byte, the tests' 9 bytes, the AES-128   *)
(* and AES-192 sizes, one byte short, one byte long, and twice the size.   *)
BadKeyLengths == {0, 1, 9, 16, 24, KeySize - 1, KeySize + 1, 2 * KeySize}

BadKeys == {FilledKey(n, 1) : n \in BadKeyLengths}

Keys == GoodKeys \cup BadKeys

InitKeys ==
    /\ config = DefaultAggregationConfig
    /\ responses = << >>
    /\ aggOut = NotCalled
    /\ dpOut = NotCalled
    /\ clock = 0
    /\ splitPrev = NotCalled
    /\ splitLast = NotCalled
    /\ OthersIdle

CallNewEncryptor ==
    /\ \E key \in Keys :
          built' = [called |-> TRUE, ctor |-> "NewEncryptor", keys |-> <<key>>,
                    ret |-> NewEncryptor(key)]
    /\ UNCHANGED <<config, responses, aggOut, dpOut, clock, splitPrev, splitLast,
                   tokenVars, sealedPrev, sealed, opened, sepOut,
                   restVars>>

CallNewResponseAnonymizerWithKey ==
    /\ \E key \in Keys :
          built' = [called |-> TRUE, ctor |-> "NewResponseAnonymizerWithKey",
                    keys |-> <<key>>, ret |-> NewResponseAnonymizerWithKey(key)]
    /\ UNCHANGED <<config, responses, aggOut, dpOut, clock, splitPrev, splitLast,
                   tokenVars, sealedPrev, sealed, opened, sepOut,
                   restVars>>

CallNewResponseSplitter ==
    /\ \E identityKey \in Keys, responseKey \in Keys :
          built' = [called |-> TRUE, ctor |-> "NewResponseSplitter",
                    keys |-> <<identityKey, responseKey>>,
                    ret |-> NewResponseSplitter(identityKey, responseKey)]
    /\ UNCHANGED <<config, responses, aggOut, dpOut, clock, splitPrev, splitLast,
                   tokenVars, sealedPrev, sealed, opened, sepOut,
                   restVars>>

NextKeys ==
    CallNewEncryptor \/ CallNewResponseAnonymizerWithKey \/ CallNewResponseSplitter

SpecKeys == InitKeys /\ [][NextKeys]_vars

----------------------------------------------------------------------------
(* Use of an Encryptor: the constructor, then Encrypt or EncryptString     *)
(* calls, then one Decrypt or DecryptString call, under the Encryptor      *)
(* built last.                                                             *)

Plaintexts == {<< >>, <<104, 105>>}
PlainStrings == {<<115>>}

(* What io.ReadFull reads from the random source: one of two nonces, or an *)
(* error.                                                                  *)
NonceDraws ==
    {RandOK([i \in 1 .. NonceSize |-> 1]),
     RandOK([[i \in 1 .. NonceSize |-> 1] EXCEPT ![NonceSize] = 2]),
     RandErr}

InitEncryptor ==
    /\ config = DefaultAggregationConfig
    /\ responses = << >>
    /\ aggOut = NotCalled
    /\ dpOut = NotCalled
    /\ clock = 0
    /\ splitPrev = NotCalled
    /\ splitLast = NotCalled
    /\ OthersIdle

(* The last constructor call returned an Encryptor.                        *)
HasEncryptor ==
    built.called /\ built.ctor = "NewEncryptor" /\ ~built.ret.obj.isNil

TheEncryptor == built.ret.obj.rec

CallEncrypt ==
    /\ HasEncryptor
    /\ ~opened.called
    /\ \E plaintext \in Plaintexts, draw \in NonceDraws :
          sealed' = [called |-> TRUE, op |-> "Encrypt", key |-> TheEncryptor.key,
                     plaintext |-> plaintext, draw |-> draw,
                     ret |-> Encrypt(TheEncryptor, plaintext, draw)]
    /\ sealedPrev' = sealed
    /\ UNCHANGED <<config, responses, aggOut, dpOut, clock, splitPrev, splitLast,
                   tokenVars, built, opened, sepOut,
                   restVars>>

CallEncryptString ==
    /\ HasEncryptor
    /\ ~opened.called
    /\ \E plaintext \in PlainStrings, draw \in NonceDraws :
          sealed' = [called |-> TRUE, op |-> "EncryptString", key |-> TheEncryptor.key,
                     plaintext |-> plaintext, draw |-> draw,
                     ret |-> EncryptString(TheEncryptor, plaintext, draw)]
    /\ sealedPrev' = sealed
    /\ UNCHANGED <<config, responses, aggOut, dpOut, clock, splitPrev, splitLast,
                   tokenVars, built, opened, sepOut,
                   restVars>>

(* The byte at position i is given another value.                          *)
Alter(bytes, i) == [bytes EXCEPT ![i].flipped = TRUE]

(* What a caller can make of a ciphertext: the ciphertext itself, the      *)
(* ciphertext with one byte altered, and every shorter prefix of it.       *)
Derived(bytes) ==
    {bytes} \cup {Alter(bytes, i) : i \in 1 .. Len(bytes)}
            \cup {SubSeq(bytes, 1, n) : n \in 0 .. Len(bytes) - 1}

(* The []byte values handed to Decrypt.                                    *)
DecryptInputs ==
    IF sealed.called /\ sealed.op = "Encrypt" /\ sealed.ret.err = "nil"
    THEN Derived(sealed.ret.ciphertext.bytes)
    ELSE {<< >>}

(* The strings handed to DecryptString.                                    *)
DecryptStringInputs ==
    IF sealed.called /\ sealed.op = "EncryptString" /\ sealed.ret.err = "nil"
    THEN {NotBase64} \cup {Base64Encode(b) : b \in Derived(sealed.ret.encoded.bytes)}
    ELSE {NotBase64}

CallDecrypt ==
    /\ HasEncryptor
    /\ ~opened.called
    /\ \E ciphertext \in DecryptInputs :
          opened' = [called |-> TRUE, op |-> "Decrypt", key |-> TheEncryptor.key,
                     input |-> ciphertext,
                     ret |-> Decrypt(TheEncryptor, ciphertext)]
    /\ UNCHANGED <<config, responses, aggOut, dpOut, clock, splitPrev, splitLast,
                   tokenVars, built, sealedPrev, sealed, sepOut,
                   restVars>>

CallDecryptString ==
    /\ HasEncryptor
    /\ ~opened.called
    /\ \E encoded \in DecryptStringInputs :
          opened' = [called |-> TRUE, op |-> "DecryptString", key |-> TheEncryptor.key,
                     input |-> encoded,
                     ret |-> DecryptString(TheEncryptor, encoded)]
    /\ UNCHANGED <<config, responses, aggOut, dpOut, clock, splitPrev, splitLast,
                   tokenVars, built, sealedPrev, sealed, sepOut,
                   restVars>>

NextEncryptor ==
    \/ CallNewEncryptor
    \/ CallEncrypt
    \/ CallEncryptString
    \/ CallDecrypt
    \/ CallDecryptString

SpecEncryptor == InitEncryptor /\ [][NextEncryptor]_vars

----------------------------------------------------------------------------
(* Calls of ValidateSeparation.                                            *)

Projects == {"", "project-identity", "project-response", "same-project"}

Guarantees ==
    [IdentityDBProject : Projects,
     ResponseDBProject : Projects,
     ForeignKeyExists : BOOLEAN,
     SharedEncryptionKey : BOOLEAN,
     SeparateHSMKeys : BOOLEAN]

InitSeparation ==
    /\ config = DefaultAggregationConfig
    /\ responses = << >>
    /\ aggOut = NotCalled
    /\ dpOut = NotCalled
    /\ clock = 0
    /\ splitPrev = NotCalled
    /\ splitLast = NotCalled
    /\ OthersIdle

CallValidateSeparation ==
    /\ \E guarantee \in Guarantees :
          sepOut' = [called |-> TRUE, guarantee |-> guarantee,
                     err |-> ValidateSeparation(guarantee)]
    /\ UNCHANGED <<config, responses, aggOut, dpOut, clock, splitPrev, splitLast,
                   tokenVars, encVars,
                   restVars>>

NextSeparation == CallValidateSeparation

SpecSeparation == InitSeparation /\ [][NextSeparation]_vars

----------------------------------------------------------------------------
(* Goroutines calling AggregateResponses and CheckKAnonymity on one        *)
(* Aggregator.  aggPc[p] is "idle" between calls, "Lock" and "wait" in     *)
(* a.mu.Lock() (line 248), "body" in lines 251-300 and "Unlock" when the   *)
(* return value is computed and the deferred Unlock is due.                *)

(* A batch of n responses.                                                 *)
Batch(n) ==
    [i \in 1 .. n |->
        [ID |-> "resp-" \o Itoa(i), PollID |-> "poll-1", HexagonID |-> "hex-1",
         Answers |-> AnswerKinds[1]]]

(* One batch below MinAggregationSize and one that reaches it.             *)
LockBatches == {Batch(MinAggregationSize - 1), Batch(MinAggregationSize)}

InitAggLock ==
    /\ config = [DefaultAggregationConfig EXCEPT !.ApplyNoise = FALSE]
    /\ responses = << >>
    /\ aggOut = NotCalled
    /\ dpOut = NotCalled
    /\ clock = 0
    /\ splitPrev = NotCalled
    /\ splitLast = NotCalled
    /\ OthersIdle

(* A goroutine calls AggregateResponses.                                   *)
BeginAggregateResponses(p) ==
    /\ aggPc[p] = "idle"
    /\ \E batch \in LockBatches : aggArg' = [aggArg EXCEPT ![p] = batch]
    /\ aggRet' = [aggRet EXCEPT ![p] = NotCalled]
    /\ aggPc' = [aggPc EXCEPT ![p] = "Lock"]
    /\ UNCHANGED <<exceptLock, aggMu>>

AggLockBegin(p) ==
    /\ aggPc[p] = "Lock"
    /\ CanLockBegin(aggMu)
    /\ aggMu' = LockBegin(aggMu, p)
    /\ aggPc' = [aggPc EXCEPT ![p] = "wait"]
    /\ UNCHANGED <<exceptLock, aggArg, aggRet>>

AggLockEnd(p) ==
    /\ aggPc[p] = "wait"
    /\ CanLockEnd(aggMu, p)
    /\ aggMu' = LockEnd(aggMu)
    /\ aggPc' = [aggPc EXCEPT ![p] = "body"]
    /\ UNCHANGED <<exceptLock, aggArg, aggRet>>

(* Lines 251-300, up to the return statement.                              *)
AggBody(p) ==
    /\ aggPc[p] = "body"
    /\ aggRet' = [aggRet EXCEPT ![p] =
           [called |-> TRUE, op |-> "AggregateResponses",
            ret |-> AggregateReturn(config, Len(aggArg[p]),
                                    CountResponses(EmptyMap, aggArg[p], 1),
                                    "poll-1", NilPtr, NilPtr, << >>, clock)]]
    /\ aggPc' = [aggPc EXCEPT ![p] = "Unlock"]
    /\ UNCHANGED <<exceptLock, aggMu, aggArg>>

(* The deferred Unlock runs and the call returns.                          *)
AggReturn(p) ==
    /\ aggPc[p] = "Unlock"
    /\ aggMu' = DeferredUnlock(aggMu, aggRet[p].ret)
    /\ aggPc' = [aggPc EXCEPT ![p] = "idle"]
    /\ aggArg' = [aggArg EXCEPT ![p] = << >>]
    /\ UNCHANGED <<exceptLock, aggRet>>

(* Aggregator.CheckKAnonymity (lines 242-244): no lock is taken.           *)
CallCheckKAnonymity(p) ==
    /\ aggPc[p] = "idle"
    /\ \E responseCount \in {KAnonymityThreshold - 1, KAnonymityThreshold} :
          aggRet' = [aggRet EXCEPT ![p] =
              [called |-> TRUE, op |-> "CheckKAnonymity",
               ret |-> [out |-> CheckKAnonymity(config, responseCount), err |-> "nil"]]]
    /\ UNCHANGED <<exceptLock, aggMu, aggPc, aggArg>>

NextAggLock ==
    \E p \in Callers :
        \/ BeginAggregateResponses(p)
        \/ AggLockBegin(p)
        \/ AggLockEnd(p)
        \/ AggBody(p)
        \/ AggReturn(p)
        \/ CallCheckKAnonymity(p)

(* A goroutine inside a call keeps running, and sync.Mutex hands the lock  *)
(* to a goroutine that keeps waiting for it (starvation mode); nothing     *)
(* obliges a goroutine to start a call.                                    *)
FairAggLock ==
    \A p \in Callers :
        /\ SF_vars(AggLockBegin(p))
        /\ WF_vars(AggLockEnd(p) \/ AggBody(p) \/ AggReturn(p))

SpecAggLock == InitAggLock /\ [][NextAggLock]_vars /\ FairAggLock

----------------------------------------------------------------------------
(* The blackout Checker called by one goroutine: SpecBlackout.             *)

MaxAC == 3
MaxTick == 7
MaxElections == 2
MaxOverrides == 1

(* Constituencies: 1 and 2 vote in the elections below, the others only    *)
(* in the election that names no constituency.                             *)
ACs == 1 .. MaxAC

Day(d) == d * HoursPerDay

(* 06:00 and 18:00 of the days from day 0 on: the instants of the calls.   *)
Instants == {6 + 12 * k : k \in 0 .. MaxTick}

Phase(n, pollingDate, acIDs) ==
    [PhaseNumber |-> n, PollingDate |-> pollingDate,
     PollingEndTime |-> pollingDate + DefaultPollingEndHour,
     ACIDs |-> acIDs, BlackoutStart |-> ZeroTime, BlackoutEnd |-> ZeroTime]

(* A single-phase election of constituencies 1 and 2 polling on day 2, a   *)
(* single-phase election of every constituency polling on day 3, and an    *)
(* election in two phases: constituency 1 on day 2, constituency 2 on      *)
(* day 3.                                                                  *)
ElectionInputs ==
    {CreateElection("E1", "Assembly", Day(2) + 9, <<1, 2>>),
     CreateElection("E2", "Panchayat", Day(3), << >>),
     CreateMultiPhaseElection("M1", "General",
        <<Phase(1, Day(2), <<1>>), Phase(2, Day(3), <<2>>)>>)}

ElectionIDs == {e.ID : e \in ElectionInputs}

(* Override requests: for election E1 and constituencies 1 and 2, from     *)
(* 06:00 of day 1 to 18:00 of day 2; and one without an election.          *)
OverrideElectionIDs == {"", "E1"}
OverrideStarts == {Day(1) + 6}
OverrideEnds == {Day(2) + DefaultPollingEndHour}

ApproverInputs == ApproverTypes \cup {"admin"}

(* The calls that only read the Checker.  They leave it as it is, so each  *)
(* behaviour makes one of them, as its last call.                          *)
ReadOps ==
    {"IsBlackoutActive", "Election.GetBlackoutForAC", "ACBlackoutSchedule",
     "GetBlackoutsForACs"}

HasRead == blkOut.called /\ blkOut.op \in ReadOps

InitBlackout ==
    /\ config = DefaultAggregationConfig
    /\ responses = << >>
    /\ aggOut = NotCalled
    /\ dpOut = NotCalled
    /\ clock = 0
    /\ splitPrev = NotCalled
    /\ splitLast = NotCalled
    /\ OthersIdle
    /\ TheChecker = NewChecker(<< >>)

CallAddElection ==
    /\ ~HasRead
    /\ Len(elections) < MaxElections
    /\ \E e \in ElectionInputs :
        /\ \A i \in DOMAIN elections : elections[i].ID # e.ID
        /\ elections' = AddElection(TheChecker, e).elections
        /\ blkOut' = [called |-> TRUE, op |-> "AddElection", id |-> e.ID]
    /\ UNCHANGED <<exceptBlk, overrides, requested>>

CallRemoveElection ==
    /\ ~HasRead
    /\ \E id \in ElectionIDs :
        /\ elections' = RemoveElection(TheChecker, id).elections
        /\ blkOut' = [called |-> TRUE, op |-> "RemoveElection", id |-> id]
    /\ UNCHANGED <<exceptBlk, overrides, requested>>

CallRequestOverride ==
    /\ ~HasRead
    /\ Len(requested) < MaxOverrides
    /\ \E id \in OverrideElectionIDs, start \in OverrideStarts, end \in OverrideEnds :
        LET r == RequestOverride(id, <<1, 2>>, "Emergency", "admin", start, end, clock)
        IN  /\ requested' =
                IF r.override.isNil THEN requested
                ELSE Append(requested, r.override.rec)
            /\ blkOut' = [called |-> TRUE, op |-> "RequestOverride",
                          a |-> IF r.override.isNil THEN 0 ELSE Len(requested) + 1,
                          err |-> r.err]
    /\ UNCHANGED <<exceptBlk, elections, overrides>>

CallApproveOverride ==
    /\ ~HasRead
    /\ \E a \in DOMAIN requested, approverType \in ApproverInputs :
        LET r == ApproveOverride(TheChecker, a, approverType, "approver", clock)
        IN  /\ requested' = r.c.requested
            /\ overrides' = r.c.overrides
            /\ elections' = r.c.elections
            /\ blkOut' = [called |-> TRUE, op |-> "ApproveOverride", a |-> a,
                          approverType |-> approverType, err |-> r.err]
    /\ UNCHANGED exceptBlk

CallIsBlackoutActive ==
    /\ ~HasRead
    /\ \E acID \in ACs, at \in Instants :
        blkOut' = [called |-> TRUE, op |-> "IsBlackoutActive",
                   acID |-> acID, at |-> at,
                   ret |-> IsBlackoutActive(TheChecker, acID, at)]
    /\ UNCHANGED <<exceptBlk, elections, overrides, requested>>

CallElectionGetBlackoutForAC ==
    /\ ~HasRead
    /\ \E i \in DOMAIN elections, acID \in ACs :
        blkOut' = [called |-> TRUE, op |-> "Election.GetBlackoutForAC",
                   election |-> elections[i], acID |-> acID,
                   ret |-> ElectionGetBlackoutForAC(elections[i], acID)]
    /\ UNCHANGED <<exceptBlk, elections, overrides, requested>>

CallACBlackoutSchedule ==
    /\ ~HasRead
    /\ \E acID \in ACs :
        \E schedule \in ACBlackoutSchedule(TheChecker, acID) :
            blkOut' = [called |-> TRUE, op |-> "ACBlackoutSchedule",
                       acID |-> acID, ret |-> schedule]
    /\ UNCHANGED <<exceptBlk, elections, overrides, requested>>

CallGetBlackoutsForACs ==
    /\ ~HasRead
    /\ \E acID \in ACs, now \in Instants :
        blkOut' = [called |-> TRUE, op |-> "GetBlackoutsForACs",
                   acIDs |-> <<acID>>, now |-> now,
                   ret |-> GetBlackoutsForACs(TheChecker, <<acID>>, now)]
    /\ UNCHANGED <<exceptBlk, elections, overrides, requested>>

NextBlackout ==
    \/ CallAddElection
    \/ CallRemoveElection
    \/ CallRequestOverride
    \/ CallApproveOverride
    \/ CallIsBlackoutActive
    \/ CallElectionGetBlackoutForAC
    \/ CallACBlackoutSchedule
    \/ CallGetBlackoutsForACs

SpecBlackout == InitBlackout /\ [][NextBlackout]_vars

----------------------------------------------------------------------------
(* The blackout Checker shared by goroutines: SpecChecker.  Each call is   *)
(* cut at its lock operations; what a call does between two of them is one *)
(* step.                                                                   *)

(* The calls of the goroutines: on constituency 1, at 06:00 of day 1.      *)
ChkAC == 1
ChkAt == Day(1) + 6
ChkElections == {e \in ElectionInputs : e.ID = "E1"}

(* The calls that take the read lock once (lines 202, 257, 282, 758).      *)
SimpleReads ==
    {"IsBlackoutActive", "GetElectionCount", "GetActiveBlackouts", "GetBlackoutForAC"}

(* The calls that take the write lock first (lines 181, 188).              *)
SimpleWrites == {"AddElection", "RemoveElection"}

NoCall == [op |-> "", a |-> 0, approverType |-> "", active |-> FALSE]

ReadCall(op) == [NoCall EXCEPT !.op = op]

(* A goroutine calls one of the read operations that lock once.            *)
BeginRead(p) ==
    /\ chkPc[p] = "idle"
    /\ \E op \in SimpleReads : chkCall' = [chkCall EXCEPT ![p] = ReadCall(op)]
    /\ chkPc' = [chkPc EXCEPT ![p] = "RLock"]
    /\ UNCHANGED <<exceptChk, blkVars, chkMu>>

(* A goroutine calls GetBlackoutsForACs with one constituency.             *)
BeginGetBlackoutsForACs(p) ==
    /\ chkPc[p] = "idle"
    /\ chkCall' = [chkCall EXCEPT ![p] = ReadCall("GetBlackoutsForACs")]
    /\ chkPc' = [chkPc EXCEPT ![p] = "outer.RLock"]
    /\ UNCHANGED <<exceptChk, blkVars, chkMu>>

(* A goroutine calls AddElection or RemoveElection.                        *)
BeginWrite(p) ==
    /\ chkPc[p] = "idle"
    /\ \E op \in SimpleWrites :
        /\ op = "AddElection" => Len(elections) < MaxElections
        /\ chkCall' = [chkCall EXCEPT ![p] = ReadCall(op)]
    /\ chkPc' = [chkPc EXCEPT ![p] = "Lock"]
    /\ UNCHANGED <<exceptChk, blkVars, chkMu>>

(* RequestOverride (lines 508-525) takes no lock and touches nothing       *)
(* shared.                                                                 *)
ChkRequestOverride(p) ==
    /\ chkPc[p] = "idle"
    /\ Len(requested) < MaxOverrides
    /\ \E start \in OverrideStarts, end \in OverrideEnds :
        requested' = Append(requested,
            RequestOverride("E1", <<ChkAC>>, "Emergency", "admin", start, end, clock).override.rec)
    /\ UNCHANGED <<exceptChk, elections, overrides, blkOut, chkVars>>

(* A goroutine calls ApproveOverride.                                      *)
BeginApproveOverride(p) ==
    /\ chkPc[p] = "idle"
    /\ \E a \in DOMAIN requested, approverType \in ApproverInputs :
        chkCall' = [chkCall EXCEPT ![p] =
            [NoCall EXCEPT !.op = "ApproveOverride", !.a = a,
                           !.approverType = approverType]]
    /\ chkPc' = [chkPc EXCEPT ![p] = "approve"]
    /\ UNCHANGED <<exceptChk, blkVars, chkMu>>

(* ApproveOverride up to its c.mu.Lock() (lines 529-549): the approval is  *)
(* written to the Override, Approved is set, and the call goes on to the   *)
(* lock when the three approvals are there.                                *)
ChkRecordApproval(p) ==
    /\ chkPc[p] = "approve"
    /\ LET call == chkCall[p]
           r == ApproveOverride(TheChecker, call.a, call.approverType, "approver", clock)
       IN  /\ requested' = r.c.requested
           /\ IF r.err = "nil" /\ r.c.requested[call.a].Approved
              THEN /\ chkPc' = [chkPc EXCEPT ![p] = "Lock"]
                   /\ UNCHANGED chkCall
              ELSE /\ chkPc' = [chkPc EXCEPT ![p] = "idle"]
                   /\ chkCall' = [chkCall EXCEPT ![p] = NoCall]
    /\ UNCHANGED <<exceptChk, elections, overrides, blkOut, chkMu>>

ReadLockPcs == {"RLock", "outer.RLock", "active.RLock", "election.RLock"}

(* c.mu.RLock() of lines 202, 257, 282, 345 and 758.  In GetBlackoutsForACs *)
(* the lock of line 345 is followed, while it is held, by that of           *)
(* IsBlackoutActive (line 354, to 202) and that of GetBlackoutForAC (line   *)
(* 356, to 282).                                                            *)
ChkRLock(p) ==
    /\ chkPc[p] \in ReadLockPcs
    /\ CanRLock(chkMu)
    /\ chkMu' = RLock(chkMu, p)
    /\ chkPc' = [chkPc EXCEPT ![p] =
        CASE chkPc[p] = "RLock" -> "RUnlock"
          [] chkPc[p] = "outer.RLock" -> "active.RLock"
          [] chkPc[p] = "active.RLock" -> "active.RUnlock"
          [] chkPc[p] = "election.RLock" -> "election.RUnlock"]
    /\ chkCall' = [chkCall EXCEPT ![p].active =
        IF chkPc[p] = "active.RLock"
        THEN IsBlackoutActive(TheChecker, ChkAC, ChkAt)
        ELSE @]
    /\ UNCHANGED <<exceptChk, blkVars>>

ReadUnlockPcs == {"RUnlock", "active.RUnlock", "election.RUnlock", "outer.RUnlock"}

(* The deferred c.mu.RUnlock() of the read operations.                     *)
ChkRUnlock(p) ==
    /\ chkPc[p] \in ReadUnlockPcs
    /\ chkMu' = RUnlock(chkMu, p)
    /\ chkPc' = [chkPc EXCEPT ![p] =
        CASE chkPc[p] = "RUnlock" -> "idle"
          [] chkPc[p] = "active.RUnlock" ->
                IF chkCall[p].active THEN "election.RLock" ELSE "outer.RUnlock"
          [] chkPc[p] = "election.RUnlock" -> "outer.RUnlock"
          [] chkPc[p] = "outer.RUnlock" -> "idle"]
    /\ chkCall' = [chkCall EXCEPT ![p] =
        IF chkPc[p] \in {"RUnlock", "outer.RUnlock"} THEN NoCall ELSE @]
    /\ UNCHANGED <<exceptChk, blkVars>>

(* c.mu.Lock() of lines 181, 188 and 550, first half.                      *)
ChkLockBegin(p) ==
    /\ chkPc[p] = "Lock"
    /\ CanLockBegin(chkMu)
    /\ chkMu' = LockBegin(chkMu, p)
    /\ chkPc' = [chkPc EXCEPT ![p] = "wait"]
    /\ UNCHANGED <<exceptChk, blkVars, chkCall>>

(* c.mu.Lock(), second half.                                               *)
ChkLockEnd(p) ==
    /\ chkPc[p] = "wait"
    /\ CanLockEnd(chkMu, p)
    /\ chkMu' = LockEnd(chkMu)
    /\ chkPc' = [chkPc EXCEPT ![p] = "locked"]
    /\ UNCHANGED <<exceptChk, blkVars, chkCall>>

(* What a writer does under the lock, and its Unlock (lines 183, 190-197,  *)
(* 551-555).                                                               *)
ChkWrite(p) ==
    /\ chkPc[p] = "locked"
    /\ LET call == chkCall[p]
       IN  CASE call.op = "AddElection" ->
                    /\ \E e \in ChkElections :
                        elections' = AddElection(TheChecker, e).elections
                    /\ UNCHANGED <<overrides, requested>>
             [] call.op = "RemoveElection" ->
                    /\ elections' = RemoveElection(TheChecker, "E1").elections
                    /\ UNCHANGED <<overrides, requested>>
             [] call.op = "ApproveOverride" ->
                    /\ overrides' =
                        ApproveOverride(TheChecker, call.a, call.approverType,
                                        "approver", clock).c.overrides
                    /\ UNCHANGED <<elections, requested>>
    /\ chkMu' = Unlock(chkMu)
    /\ chkPc' = [chkPc EXCEPT ![p] = "idle"]
    /\ chkCall' = [chkCall EXCEPT ![p] = NoCall]
    /\ UNCHANGED <<exceptChk, blkOut>>

NextChecker ==
    \E p \in Callers :
        \/ BeginRead(p)
        \/ BeginGetBlackoutsForACs(p)
        \/ BeginWrite(p)
        \/ ChkRequestOverride(p)
        \/ BeginApproveOverride(p)
        \/ ChkRecordApproval(p)
        \/ ChkRLock(p)
        \/ ChkRUnlock(p)
        \/ ChkLockBegin(p)
        \/ ChkLockEnd(p)
        \/ ChkWrite(p)

(* A goroutine that can take a step takes it, and a goroutine that can     *)
(* get the lock again and again gets it.                                   *)
FairChecker ==
    \A p \in Callers :
        /\ SF_vars(ChkRLock(p))
        /\ SF_vars(ChkLockBegin(p))
        /\ WF_vars(ChkLockEnd(p) \/ ChkRUnlock(p) \/ ChkWrite(p) \/ ChkRecordApproval(p))

SpecChecker == InitBlackout /\ [][NextChecker]_vars /\ FairChecker

----------------------------------------------------------------------------
(* The civic score of one user, and the package's functions: SpecScore.    *)

MaxScoreDay == 1
MaxCount == 300
MaxActions == 2

ScoreActionTypes ==
    {"kyc_completed", "fake_issue_reported", "poll_completed", "invalid_action"}

(* Counts: none, negative, one, and one whose product with 10 points       *)
(* leaves the range of int.                                                *)
ScoreCounts == {0 - 1, 0, 1, MaxCount}

ScoreActions == [Type : ScoreActionTypes, Count : ScoreCounts]

ActionLists == UNION {[1 .. n -> ScoreActions] : n \in 0 .. MaxActions}

StartScores == MinScore .. MaxScore

(* Days from today to the instant handed to ApplyDecay: before the         *)
(* inactivity threshold, at it, one and two weeks past it, and far enough  *)
(* for a decay of more than MaxScore.                                      *)
DecayDays ==
    {0, InactivityDays - 1, InactivityDays, InactivityDays + DaysPerWeek - 1,
     InactivityDays + DaysPerWeek, InactivityDays + 2 * DaysPerWeek,
     InactivityDays + DaysPerWeek * (MaxScore \div DecayPerWeek + 1)}

PureOps == {"Calculate", "CalculateSingle"}

CalledPure == scoreOut.called /\ scoreOut.op \in PureOps

InitScore ==
    /\ config = DefaultAggregationConfig
    /\ responses = << >>
    /\ aggOut = NotCalled
    /\ dpOut = NotCalled
    /\ clock = 0
    /\ splitPrev = NotCalled
    /\ splitLast = NotCalled
    /\ OthersIdle
    /\ user = NewUserScore("user-1", today)

TickScore ==
    /\ ~CalledPure
    /\ today < MaxScoreDay
    /\ today' = today + 1
    /\ UNCHANGED <<exceptScore, user, scoreOut>>

CallUserScoreApplyAction ==
    /\ ~CalledPure
    /\ \E action \in ScoreActionTypes, count \in ScoreCounts :
        LET r == UserScoreApplyAction(user, action, count, today)
        IN  /\ user' = r.u
            /\ scoreOut' = [called |-> TRUE, op |-> "UserScore.ApplyAction",
                            action |-> action, count |-> count, ret |-> r.delta]
    /\ UNCHANGED <<exceptScore, today>>

CallUserScoreApplyDecay ==
    /\ ~CalledPure
    /\ \E d \in DecayDays :
        LET r == UserScoreApplyDecay(user, today + d)
        IN  /\ user' = r.u
            /\ scoreOut' = [called |-> TRUE, op |-> "UserScore.ApplyDecay",
                            now |-> today + d, ret |-> r.weeksDecayed]
    /\ UNCHANGED <<exceptScore, today>>

(* The package's functions are called on their own, once.                  *)
CallCalculate ==
    /\ ~scoreOut.called
    /\ \E currentScore \in StartScores, actions \in ActionLists :
        scoreOut' = [called |-> TRUE, op |-> "Calculate",
                     currentScore |-> currentScore, actions |-> actions,
                     ret |-> Calculate(currentScore, actions)]
    /\ UNCHANGED <<exceptScore, today, user>>

CallCalculateSingle ==
    /\ ~scoreOut.called
    /\ \E currentScore \in StartScores, action \in ScoreActionTypes, count \in ScoreCounts :
        scoreOut' = [called |-> TRUE, op |-> "CalculateSingle",
                     currentScore |-> currentScore,
                     actions |-> <<[Type |-> action, Count |-> count]>>,
                     ret |-> CalculateSingle(currentScore, action, count).newScore]
    /\ UNCHANGED <<exceptScore, today, user>>

NextScore ==
    \/ TickScore
    \/ CallUserScoreApplyAction
    \/ CallUserScoreApplyDecay
    \/ CallCalculate
    \/ CallCalculateSingle

SpecScore == InitScore /\ [][NextScore]_vars

----------------------------------------------------------------------------
(* The booth Matcher shared by goroutines: SpecMatcher.  Each call is cut  *)
(* at its lock operations; the scoring of candidates, which only reads     *)
(* the Matcher, is left out.                                               *)

MaxBooths == 2
MaxInputs == 1

(* Booths as BoothFromDB makes them (lines 660-670), derived fields filled *)
(* in.                                                                     *)
BoothInputs ==
    {[ID |-> 100, Number |-> "X", Name |-> "New School",
      NameNormalized |-> "new school", NamePhonetic |-> "N24", ACID |-> 176,
      Keywords |-> <<"new", "school">>],
     [ID |-> 101, Number |-> "Y", Name |-> "Town Hall",
      NameNormalized |-> "town hall", NamePhonetic |-> "T54", ACID |-> 177,
      Keywords |-> <<"town", "hall">>]}

UserInputs == {"", "New School"}

NoMatcherCall == [op |-> "", input |-> "", left |-> 0]

(* The calls that take the read lock once and call nothing that locks      *)
(* (lines 187, 349, 379, 392, 399).                                        *)
MatcherReads ==
    {"MatchWithCandidates", "IsExactMatch", "GetBoothsByAC", "GetBoothCount", "GetACCount"}

InitMatcher ==
    /\ config = DefaultAggregationConfig
    /\ responses = << >>
    /\ aggOut = NotCalled
    /\ dpOut = NotCalled
    /\ clock = 0
    /\ splitPrev = NotCalled
    /\ splitLast = NotCalled
    /\ OthersIdle
    /\ matcher = NewMatcher

BeginMatcherRead(p) ==
    /\ mPc[p] = "idle"
    /\ \E op \in MatcherReads : mCall' = [mCall EXCEPT ![p] = [NoMatcherCall EXCEPT !.op = op]]
    /\ mPc' = [mPc EXCEPT ![p] = "RLock"]
    /\ UNCHANGED <<exceptMatcher, matcher, mMu, mAdded>>

BeginMatch(p) ==
    /\ mPc[p] = "idle"
    /\ \E userInput \in UserInputs :
        mCall' = [mCall EXCEPT ![p] = [op |-> "Match", input |-> userInput, left |-> 0]]
    /\ mPc' = [mPc EXCEPT ![p] = "match.RLock"]
    /\ UNCHANGED <<exceptMatcher, matcher, mMu, mAdded>>

(* MatchMultiple with 1 .. MaxInputs inputs, each of them non-empty.       *)
BeginMatchMultiple(p) ==
    /\ mPc[p] = "idle"
    /\ \E n \in 1 .. MaxInputs :
        mCall' = [mCall EXCEPT ![p] =
            [op |-> "MatchMultiple", input |-> "New School", left |-> n]]
    /\ mPc' = [mPc EXCEPT ![p] = "multi.RLock"]
    /\ UNCHANGED <<exceptMatcher, matcher, mMu, mAdded>>

BeginAddBooth(p) ==
    /\ mPc[p] = "idle"
    /\ Len(matcher.booths) + Cardinality({q \in Callers : mCall[q].op = "AddBooth"}) < MaxBooths
    /\ mCall' = [mCall EXCEPT ![p] = [NoMatcherCall EXCEPT !.op = "AddBooth"]]
    /\ mPc' = [mPc EXCEPT ![p] = "Lock"]
    /\ UNCHANGED <<exceptMatcher, matcher, mMu, mAdded>>

MatcherRLockPcs == {"RLock", "match.RLock", "candidates.RLock", "multi.RLock", "multi.again"}

(* m.mu.RLock() of lines 153, 187, 323, 336, 349, 379, 392 and 399.  Match *)
(* goes on, with its read lock held, to MatchWithCandidates (line 168),    *)
(* which locks again (line 187).                                           *)
MatcherRLock(p) ==
    /\ mPc[p] \in MatcherRLockPcs
    /\ CanRLock(mMu)
    /\ mMu' = RLock(mMu, p)
    /\ mPc' = [mPc EXCEPT ![p] =
        CASE mPc[p] = "RLock" -> "RUnlock"
          [] mPc[p] = "match.RLock" ->
                IF MatchReturnsEarly(matcher, mCall[p].input)
                THEN "match.RUnlock" ELSE "candidates.RLock"
          [] mPc[p] = "candidates.RLock" -> "candidates.RUnlock"
          [] mPc[p] = "multi.RLock" ->
                IF Len(matcher.booths) = 0 THEN "multi.RUnlock" ELSE "multi.release"
          [] mPc[p] = "multi.again" ->
                IF mCall[p].left > 0 THEN "multi.release" ELSE "multi.RUnlock"]
    /\ UNCHANGED <<exceptMatcher, matcher, mCall, mAdded>>

MatcherRUnlockPcs ==
    {"RUnlock", "match.RUnlock", "candidates.RUnlock", "multi.release", "multi.RUnlock"}

(* m.mu.RUnlock(): the deferred ones, and that of line 334, after which    *)
(* MatchMultiple calls Match.                                              *)
MatcherRUnlock(p) ==
    /\ mPc[p] \in MatcherRUnlockPcs
    /\ mMu' = RUnlock(mMu, p)
    /\ mPc' = [mPc EXCEPT ![p] =
        CASE mPc[p] = "RUnlock" -> "idle"
          [] mPc[p] = "candidates.RUnlock" -> "match.RUnlock"
          [] mPc[p] = "match.RUnlock" ->
                IF mCall[p].op = "MatchMultiple" THEN "multi.again" ELSE "idle"
          [] mPc[p] = "multi.release" -> "match.RLock"
          [] mPc[p] = "multi.RUnlock" -> "idle"]
    /\ mCall' = [mCall EXCEPT ![p] =
        CASE mPc'[p] = "idle" -> NoMatcherCall
          [] mPc[p] = "multi.release" -> [@ EXCEPT !.left = @ - 1]
          [] OTHER -> @]
    /\ UNCHANGED <<exceptMatcher, matcher, mAdded>>

(* m.mu.Lock() of line 406, first half.                                    *)
MatcherLockBegin(p) ==
    /\ mPc[p] = "Lock"
    /\ CanLockBegin(mMu)
    /\ mMu' = LockBegin(mMu, p)
    /\ mPc' = [mPc EXCEPT ![p] = "wait"]
    /\ UNCHANGED <<exceptMatcher, matcher, mCall, mAdded>>

(* m.mu.Lock(), second half.                                               *)
MatcherLockEnd(p) ==
    /\ mPc[p] = "wait"
    /\ CanLockEnd(mMu, p)
    /\ mMu' = LockEnd(mMu)
    /\ mPc' = [mPc EXCEPT ![p] = "locked"]
    /\ UNCHANGED <<exceptMatcher, matcher, mCall, mAdded>>

(* AddBooth under the lock, its deferred Unlock and its return.            *)
MatcherAddBooth(p) ==
    /\ mPc[p] = "locked"
    /\ \E booth \in BoothInputs : matcher' = AddBooth(matcher, booth)
    /\ mMu' = Unlock(mMu)
    /\ mAdded' = mAdded + 1
    /\ mPc' = [mPc EXCEPT ![p] = "idle"]
    /\ mCall' = [mCall EXCEPT ![p] = NoMatcherCall]
    /\ UNCHANGED exceptMatcher

NextMatcher ==
    \E p \in Callers :
        \/ BeginMatcherRead(p)
        \/ BeginMatch(p)
        \/ BeginMatchMultiple(p)
        \/ BeginAddBooth(p)
        \/ MatcherRLock(p)
        \/ MatcherRUnlock(p)
        \/ MatcherLockBegin(p)
        \/ MatcherLockEnd(p)
        \/ MatcherAddBooth(p)

(* A goroutine that can take a step takes it, and a goroutine that can     *)
(* get the lock again and again gets it.                                   *)
FairMatcher ==
    \A p \in Callers :
        /\ SF_vars(MatcherRLock(p))
        /\ SF_vars(MatcherLockBegin(p))
        /\ WF_vars(MatcherLockEnd(p) \/ MatcherRUnlock(p) \/ MatcherAddBooth(p))

SpecMatcher == InitMatcher /\ [][NextMatcher]_vars /\ FairMatcher

----------------------------------------------------------------------------
(* Batches that hold responses of two polls: SpecPolls.  The aggregator    *)
(* is asked for poll-1, without noise.                                     *)

MaxMixed == 12

BatchPollIDs == {"poll-1", "poll-2"}

(* The responses a batch can hold, by poll and by answers; batches are     *)
(* enumerated in this order.                                               *)
MixedKinds ==
    << [PollID |-> "poll-1", Answers |-> AnswerKinds[1]],
       [PollID |-> "poll-1", Answers |-> AnswerKinds[2]],
       [PollID |-> "poll-2", Answers |-> AnswerKinds[1]],
       [PollID |-> "poll-2", Answers |-> AnswerKinds[2]] >>

InitPolls ==
    /\ config \in {cfg \in Configs : ~cfg.ApplyNoise}
    /\ responses = << >>
    /\ aggOut = NotCalled
    /\ dpOut = NotCalled
    /\ clock = 0
    /\ splitPrev = NotCalled
    /\ splitLast = NotCalled
    /\ OthersIdle

(* The batch collects one more response (a fresh response id) of either    *)
(* poll.                                                                   *)
AddPollResponse ==
    /\ ~aggOut.called
    /\ Len(responses) < MaxMixed
    /\ \E k \in 1 .. Len(MixedKinds) :
          /\ Len(responses) > 0 => \E j \in 1 .. k :
                 /\ MixedKinds[j].PollID = responses[Len(responses)].PollID
                 /\ MixedKinds[j].Answers = responses[Len(responses)].Answers
          /\ responses' = Append(responses,
                 [ID |-> "resp-" \o Itoa(Len(responses) + 1),
                  PollID |-> MixedKinds[k].PollID,
                  HexagonID |-> "hex-1",
                  Answers |-> MixedKinds[k].Answers])
    /\ UNCHANGED <<config, aggOut, dpOut, clock, splitPrev, splitLast,
                   tokenVars, encVars, sepOut,
                   restVars>>

NextPolls == AddPollResponse \/ AggregateResponses

SpecPolls == InitPolls /\ [][NextPolls]_vars

----------------------------------------------------------------------------
(* Properties of AggregateResponses (checked under SpecAggregator).        *)

Count == Len(responses)

(* AggregateResponses has returned a result (not the error).               *)
Accepted == aggOut.called /\ ~aggOut.ret.result.isNil

Result == aggOut.ret.result

(* The tally of a batch stated directly: how many responses answer q with  *)
(* a value that prints as v.                                               *)
QuestionIDs(batch) == UNION {DOMAIN batch[i].Answers : i \in 1 .. Len(batch)}

Answering(batch, q) == {i \in 1 .. Len(batch) : q \in DOMAIN batch[i].Answers}

Occurrences(batch, q, v) ==
    Cardinality({i \in Answering(batch, q) : Sprintf(batch[i].Answers[q]) = v})

TrueTally(batch) ==
    [q \in QuestionIDs(batch) |->
        [v \in {Sprintf(batch[i].Answers[q]) : i \in Answering(batch, q)} |->
            Occurrences(batch, q, v)]]

(* C1: for every accepted batch (len >= MinAggregationSize) the returned   *)
(* MeetsKAnon flag equals (len >= KAnonymityThreshold of the config), and  *)
(* Results is nil exactly when MeetsKAnon is false, noise on or off.       *)
C1_TalliesNilIffBelowK ==
    (aggOut.called /\ Count >= config.MinAggregationSize) =>
        /\ ~Result.isNil
        /\ Result.MeetsKAnon = (Count >= config.KAnonymityThreshold)
        /\ Result.Results.isNil = ~Result.MeetsKAnon

(* An accepted batch below the threshold, noise enabled: Results is nil.   *)
C1_Witness ==
    /\ Accepted
    /\ config.ApplyNoise
    /\ Count = 15
    /\ config.KAnonymityThreshold = 20
    /\ ~Result.MeetsKAnon
    /\ Result.Results.isNil

(* C4: with ApplyNoise disabled and k-anonymity met, Results holds for     *)
(* every question id of the batch and every printed answer value exactly   *)
(* the number of responses giving it, and no other key.                    *)
C4_RawTalliesExact ==
    (Accepted /\ ~config.ApplyNoise /\ Result.MeetsKAnon) =>
        /\ ~Result.Results.isNil
        /\ Result.Results.m = TrueTally(responses)

(* A 10/5 split of 15 responses: 10 and 5 for q1, 15 for q2, where "5" and *)
(* 5 print alike, and 5 for q3, which only some responses answer.          *)
C4_Witness ==
    /\ Accepted
    /\ ~config.ApplyNoise
    /\ Count = 15
    /\ ~Result.Results.isNil
    /\ Result.Results.m =
          ("q1" :> (("option_a" :> 10) @@ ("option_b" :> 5)))
          @@ ("q2" :> ("5" :> 15))
          @@ ("q3" :> ("true" :> 5))

(* C5: a batch with len < MinAggregationSize gets the InsufficientResponses *)
(* error and a nil result; a batch with len >= MinAggregationSize never    *)
(* gets that error.                                                        *)
C5_InsufficientResponses ==
    aggOut.called =>
        /\ Count < config.MinAggregationSize =>
              (aggOut.ret.err = "ErrInsufficientResponses" /\ aggOut.ret.result.isNil)
        /\ Count >= config.MinAggregationSize =>
              (aggOut.ret.err = "nil" /\ ~aggOut.ret.result.isNil)

(* 5 responses with a minimum of 10: rejected.                             *)
C5_Witness ==
    /\ aggOut.called
    /\ Count = 5
    /\ config.MinAggregationSize = 10
    /\ aggOut.ret.err = "ErrInsufficientResponses"

(* C6: every returned AggregatedResult has ResponseCount = len(responses), *)
(* whether or not k-anonymity is met and whether or not noise is applied.  *)
C6_ResponseCountIsTrueCount ==
    Accepted => Result.ResponseCount = Count

(* A redacted, noise-flagged result that still carries the true count.     *)
C6_Witness ==
    /\ Accepted
    /\ Result.NoiseApplied
    /\ ~Result.MeetsKAnon
    /\ Result.Results.isNil
    /\ Count = 12
    /\ Result.ResponseCount = 12

(* C7 as claimed: NoiseApplied is true exactly when the batch meets        *)
(* k-anonymity, len < LargeSampleThreshold and ApplyNoise is enabled, and  *)
(* otherwise published tallies are the raw counts.                         *)
C7_NoiseOnlyWhenKAnonMet ==
    Accepted =>
        /\ Result.NoiseApplied =
              (Result.MeetsKAnon /\ Count < LargeSampleThreshold /\ config.ApplyNoise)
        /\ (~Result.NoiseApplied /\ ~Result.Results.isNil) =>
              Result.Results.m = TrueTally(responses)

(* C7 as amended: NoiseApplied is true exactly when ApplyNoise is enabled  *)
(* and len < LargeSampleThreshold, whether or not k-anonymity is met;      *)
(* published tallies are the raw counts when NoiseApplied is false, and    *)
(* each raw count plus its own rounded noise, clamped at 0, when true.     *)
C7_NoiseFlagAndTallies ==
    Accepted =>
        /\ Result.NoiseApplied = (config.ApplyNoise /\ Count < LargeSampleThreshold)
        /\ (~Result.NoiseApplied /\ ~Result.Results.isNil) =>
              Result.Results.m = TrueTally(responses)
        /\ (Result.NoiseApplied /\ ~Result.Results.isNil) =>
              LET raw == TrueTally(responses)
              IN  /\ DOMAIN Result.Results.m = DOMAIN raw
                  /\ \A q \in DOMAIN raw :
                        /\ DOMAIN Result.Results.m[q] = DOMAIN raw[q]
                        /\ \A v \in DOMAIN raw[q] :
                              LET noisy == raw[q][v] + aggOut.draws[<<q, v>>]
                              IN  Result.Results.m[q][v] = IF noisy < 0 THEN 0 ELSE noisy

(* A published, noised tally: one cell above its raw count, one clamped.   *)
C7_Witness ==
    /\ Accepted
    /\ Result.NoiseApplied
    /\ Result.MeetsKAnon
    /\ ~Result.Results.isNil
    /\ Count = 15
    /\ Result.Results.m["q1"] = (("option_a" :> 11) @@ ("option_b" :> 0))

(* C8: MeetsKAnon = true implies that the batch holds at least             *)
(* KAnonymityThreshold distinct responses (distinct response ids).         *)
C8_KDistinctResponses ==
    (Accepted /\ Result.MeetsKAnon) =>
        Cardinality(IDs(responses)) >= config.KAnonymityThreshold

----------------------------------------------------------------------------
(* Properties of ApplyDifferentialPrivacy (checked under SpecDP).          *)

(* C9: for every count and every epsilon, epsilon <= 0 and negative counts *)
(* included, ApplyDifferentialPrivacy(count, epsilon) >= 0.                *)
C9_NeverNegative ==
    dpOut.called => dpOut.out.value >= 0

(* A noise that takes the count below zero: the result is 0.               *)
C9_Witness ==
    /\ dpOut.called
    /\ dpOut.epsilon <= 0
    /\ dpOut.count = 1
    /\ dpOut.draw = 0 - 22
    /\ dpOut.out.value = 0

(* C10: for every count >= LargeSampleThreshold and every epsilon the      *)
(* result is count exactly, and no noise is drawn.                         *)
C10_LargeSampleUnchanged ==
    (dpOut.called /\ dpOut.count >= LargeSampleThreshold) =>
        (dpOut.out.value = dpOut.count /\ ~dpOut.out.drew)

(* A count of exactly 50 with a non-zero draw at hand comes back as 50.    *)
C10_Witness ==
    /\ dpOut.called
    /\ dpOut.count = LargeSampleThreshold
    /\ dpOut.draw # 0
    /\ dpOut.out.value = LargeSampleThreshold
    /\ ~dpOut.out.drew

----------------------------------------------------------------------------
(* Properties of SplitResponse (checked under SpecSplitter).               *)

Succeeded(call) == call.called /\ call.ret.err = "nil"

FieldNames(rec) == DOMAIN rec

(* C2 as claimed: the only field present in both output records is the     *)
(* payout token hash.                                                      *)
C2_OnlyTokenHashShared ==
    Succeeded(splitLast) =>
        FieldNames(splitLast.ret.identity.rec) \cap FieldNames(splitLast.ret.response.rec)
            = {"PayoutTokenHash"}

(* C2 as amended: the fields present in both output records are exactly    *)
(* PayoutTokenHash, PollID and CreatedAt, each with the same value in      *)
(* both; UserID and EarningAmountPaisa are in the IdentityRecord only.     *)
C2_SharedFields ==
    Succeeded(splitLast) =>
        LET identity == splitLast.ret.identity.rec
            response == splitLast.ret.response.rec
        IN  /\ FieldNames(identity) \cap FieldNames(response)
                  = {"PayoutTokenHash", "PollID", "CreatedAt"}
            /\ identity.PayoutTokenHash = response.PayoutTokenHash
            /\ identity.PollID = response.PollID
            /\ identity.CreatedAt = response.CreatedAt
            /\ FieldNames(identity) \ FieldNames(response)
                  = {"UserID", "EarningAmountPaisa"}
            /\ FieldNames(response) \ FieldNames(identity)
                  = {"ResponseID", "HexagonID", "Answers", "ResponseTimeSeconds",
                     "DeviceFingerprintHash"}

(* A successful split whose two records carry the same poll id and time.   *)
C2_Witness ==
    /\ Succeeded(splitLast)
    /\ splitLast.ret.identity.rec.PollID = "poll-456"
    /\ splitLast.ret.response.rec.PollID = "poll-456"
    /\ splitLast.ret.identity.rec.CreatedAt = 1
    /\ splitLast.ret.response.rec.CreatedAt = 1

(* Two calls that differ in nothing but the user id.                       *)
DifferOnlyInUserID(a, b) ==
    /\ Succeeded(a)
    /\ Succeeded(b)
    /\ a.args.userID # b.args.userID
    /\ [a.args EXCEPT !.userID = ""] = [b.args EXCEPT !.userID = ""]
    /\ a.rand = b.rand
    /\ a.now = b.now

(* The string-valued fields of a ResponseRecord, answers included.         *)
StringsOf(response) ==
    {response.ResponseID, response.PollID, response.HexagonID,
     response.DeviceFingerprintHash, response.PayoutTokenHash}
    \cup DOMAIN response.Answers
    \cup {response.Answers[q].val :
             q \in {x \in DOMAIN response.Answers : response.Answers[x].type = "string"}}

(* C3: for two SplitResponse calls that differ only in user_id (same other *)
(* arguments, same random draws, same time) the two ResponseRecords are    *)
(* equal in every field except PayoutTokenHash, and no field of either     *)
(* equals the user id.                                                     *)
C3_ResponseRecordIndependentOfUser ==
    DifferOnlyInUserID(splitPrev, splitLast) =>
        LET r1 == splitPrev.ret.response.rec
            r2 == splitLast.ret.response.rec
        IN  /\ FieldNames(r1) = FieldNames(r2)
            /\ \A f \in FieldNames(r1) \ {"PayoutTokenHash"} : r1[f] = r2[f]
            /\ {splitPrev.args.userID, splitLast.args.userID}
                  \cap (StringsOf(r1) \cup StringsOf(r2)) = {}

(* Two such calls, by user-123 and then user-456; only the token differs.  *)
C3_Witness ==
    /\ DifferOnlyInUserID(splitPrev, splitLast)
    /\ splitPrev.args.userID = "user-123"
    /\ splitLast.args.userID = "user-456"
    /\ splitPrev.ret.response.rec.PayoutTokenHash
          # splitLast.ret.response.rec.PayoutTokenHash

----------------------------------------------------------------------------
(* Properties of the constructors (checked under SpecKeys).                *)

BuiltBy(ctor) == built.called /\ built.ctor = ctor

(* C11: NewResponseSplitter returns an error and no splitter whenever the  *)
(* identity key and the response key are equal, and returns a splitter and *)
(* no error for every pair of distinct 32-byte keys.                       *)
C11_SplitterKeysDistinct ==
    BuiltBy("NewResponseSplitter") =>
        LET identityKey == built.keys[1]
            responseKey == built.keys[2]
        IN  /\ identityKey = responseKey =>
                   built.ret.obj.isNil /\ built.ret.err # "nil"
            /\ (/\ identityKey # responseKey
                /\ Len(identityKey) = KeySize
                /\ Len(responseKey) = KeySize) =>
                   ~built.ret.obj.isNil /\ built.ret.err = "nil"

(* Two 32-byte keys that differ in the last byte only are accepted.        *)
C11_Witness ==
    /\ BuiltBy("NewResponseSplitter")
    /\ built.keys[1] = FilledKey(KeySize, 1)
    /\ built.keys[2] = [FilledKey(KeySize, 1) EXCEPT ![KeySize] = 2]
    /\ ~built.ret.obj.isNil

----------------------------------------------------------------------------
(* Token hashes of repeated calls (checked under SpecSplitter).            *)

(* What the GeneratePayoutToken call inside a SplitResponse call (line     *)
(* 520) returned.                                                          *)
Generated(call) ==
    GeneratePayoutToken(call.args.userID, call.args.pollID,
                        call.args.earningAmountPaisa, call.rand.salt, call.now)

(* Two successful calls with the same user, poll and amount.               *)
SameTokenInputs(a, b) ==
    /\ Succeeded(a)
    /\ Succeeded(b)
    /\ a.args.userID = b.args.userID
    /\ a.args.pollID = b.args.pollID
    /\ a.args.earningAmountPaisa = b.args.earningAmountPaisa

KeysHeld ==
    IF built.ret.obj.isNil THEN {}
    ELSE IF built.ctor = "NewEncryptor" THEN {built.ret.obj.rec.key}
    ELSE IF built.ctor = "NewResponseAnonymizerWithKey"
    THEN {built.ret.obj.rec.encryptionKey}
    ELSE {built.ret.obj.rec.identityEncryptor.rec.key,
          built.ret.obj.rec.responseEncryptor.rec.key}

(* C18: NewEncryptor, NewResponseAnonymizerWithKey and NewResponseSplitter *)
(* return nil and an error when a key they are given is not 32 bytes long  *)
(* (either key, for NewResponseSplitter); an object that is returned holds *)
(* the keys it was given, each 32 bytes long, and a splitter's two         *)
(* encryptors are not nil.                                                 *)
C18_KeyLengthEnforced ==
    built.called =>
        /\ (\E i \in 1 .. Len(built.keys) : Len(built.keys[i]) # KeySize) =>
               built.ret.obj.isNil /\ built.ret.err # "nil"
        /\ built.ret.obj.isNil = (built.ret.err # "nil")
        /\ (~built.ret.obj.isNil /\ built.ctor = "NewResponseSplitter") =>
               /\ ~built.ret.obj.rec.identityEncryptor.isNil
               /\ ~built.ret.obj.rec.responseEncryptor.isNil
        /\ ~built.ret.obj.isNil =>
               /\ KeysHeld = {built.keys[i] : i \in 1 .. Len(built.keys)}
               /\ \A key \in KeysHeld : Len(key) = KeySize

(* NewResponseSplitter refuses a 32-byte identity key with a 31-byte       *)
(* response key.                                                           *)
C18_Witness ==
    /\ BuiltBy("NewResponseSplitter")
    /\ Len(built.keys[1]) = KeySize
    /\ Len(built.keys[2]) = KeySize - 1
    /\ built.ret.obj.isNil
    /\ built.ret.err = "both encryption keys must be 32 bytes"

----------------------------------------------------------------------------
(* Properties of ValidatePayoutToken (checked under SpecToken).            *)

(* The presented token is nil or lacks its hash or its poll id.            *)
Malformed(token) ==
    token.isNil \/ token.rec.TokenHash = "" \/ token.rec.PollID = ""

(* C13: ValidatePayoutToken returns ErrInvalidToken for a nil token, an    *)
(* empty token hash or an empty poll id, whatever the time; otherwise      *)
(* ErrTokenExpired when now > ExpiresAt; otherwise nil, also when          *)
(* now = ExpiresAt.                                                        *)
C13_ValidationOrder ==
    checked.called =>
        /\ Malformed(checked.token) => checked.err = "ErrInvalidToken"
        /\ (~Malformed(checked.token) /\ checked.now > checked.token.rec.ExpiresAt)
               => checked.err = "ErrTokenExpired"
        /\ (~Malformed(checked.token) /\ checked.now <= checked.token.rec.ExpiresAt)
               => checked.err = "nil"

(* A token without a hash, presented after its expiry, is reported         *)
(* invalid, not expired.                                                   *)
C13_Witness ==
    /\ checked.called
    /\ ~checked.token.isNil
    /\ checked.token.rec.TokenHash = ""
    /\ checked.token.rec.PollID = "poll-1"
    /\ checked.now > checked.token.rec.ExpiresAt
    /\ checked.err = "ErrInvalidToken"

(* GeneratePayoutToken has returned a token.                               *)
Issued == issued.called /\ issued.ret.err = "nil"

IssuedToken == issued.ret.token

(* The last ValidatePayoutToken call was given the issued token.           *)
CheckedIssued == Issued /\ checked.called /\ checked.token = IssuedToken

(* C14: the issued token has CreatedAt = the time of the call and          *)
(* ExpiresAt = CreatedAt + 30 days; it validates without error at every    *)
(* time up to ExpiresAt; and once a validation of it has returned          *)
(* ErrTokenExpired, every later validation of it returns ErrTokenExpired.  *)
C14_TokenLifecycle ==
    /\ [](Issued =>
             /\ IssuedToken.rec.CreatedAt = issued.now
             /\ IssuedToken.rec.ExpiresAt = IssuedToken.rec.CreatedAt + MaxTokenAge)
    /\ []((CheckedIssued /\ checked.now <= IssuedToken.rec.ExpiresAt)
             => checked.err = "nil")
    /\ []((CheckedIssued /\ checked.err = "ErrTokenExpired")
             => [](CheckedIssued => checked.err = "ErrTokenExpired"))

(* The issued token is reported expired MaxLate days after its expiry.     *)
C14_Witness ==
    /\ CheckedIssued
    /\ checked.now = IssuedToken.rec.ExpiresAt + MaxLate
    /\ checked.err = "ErrTokenExpired"

----------------------------------------------------------------------------
(* Properties of the Encryptor (checked under SpecEncryptor).              *)

(* The last Encrypt (op = "Encrypt") or EncryptString call succeeded.      *)
SealedBy(call, op) == call.called /\ call.op = op /\ call.ret.err = "nil"

OpenedBy(op) == opened.called /\ opened.op = op

(* C15: Decrypt of what Encrypt returned, under the same key, returns the  *)
(* bytes of the plaintext and no error, and DecryptString of what          *)
(* EncryptString returned returns the string; under another 32-byte key    *)
(* both return an error.                                                   *)
C15_RoundTrip ==
    /\ (/\ SealedBy(sealed, "Encrypt")
        /\ OpenedBy("Decrypt")
        /\ opened.input = sealed.ret.ciphertext.bytes) =>
           IF opened.key = sealed.key
           THEN opened.ret.err = "nil" /\ opened.ret.plaintext.bytes = sealed.plaintext
           ELSE opened.ret.err # "nil"
    /\ (/\ SealedBy(sealed, "EncryptString")
        /\ OpenedBy("DecryptString")
        /\ opened.input = sealed.ret.encoded) =>
           IF opened.key = sealed.key
           THEN opened.ret.err = "nil" /\ opened.ret.plaintext = sealed.plaintext
           ELSE opened.ret.err # "nil"

(* A two-byte plaintext is encrypted and decrypted under the same key.     *)
C15_Witness ==
    /\ SealedBy(sealed, "Encrypt")
    /\ sealed.plaintext = <<104, 105>>
    /\ OpenedBy("Decrypt")
    /\ opened.input = sealed.ret.ciphertext.bytes
    /\ opened.key = sealed.key
    /\ opened.ret.plaintext.bytes = <<104, 105>>

(* Two successful Encrypt calls with the same key and the same plaintext.  *)
SameEncryptInputs ==
    /\ SealedBy(sealedPrev, "Encrypt")
    /\ SealedBy(sealed, "Encrypt")
    /\ sealedPrev.key = sealed.key
    /\ sealedPrev.plaintext = sealed.plaintext

C17_DecryptFailsClosed ==
    /\ OpenedBy("Decrypt") =>
           /\ (\/ Len(opened.input) < NonceSize
               \/ /\ SealedBy(sealed, "Encrypt")
                  /\ \/ opened.input # sealed.ret.ciphertext.bytes
                     \/ opened.key # sealed.key)
                  => opened.ret.err = "ErrDecryptionFailed"
           /\ opened.ret.err # "nil" => opened.ret.plaintext = NilBytes
    /\ OpenedBy("DecryptString") =>
           /\ ~opened.input.valid => opened.ret.err = "ErrDecryptionFailed"
           /\ opened.ret.err # "nil" => opened.ret.plaintext = << >>

(* A ciphertext of a two-byte plaintext with its first encrypted byte      *)
(* altered is refused under the key that made it, and nothing is returned. *)
C17_Witness ==
    /\ SealedBy(sealed, "Encrypt")
    /\ sealed.plaintext = <<104, 105>>
    /\ OpenedBy("Decrypt")
    /\ opened.key = sealed.key
    /\ opened.input = Alter(sealed.ret.ciphertext.bytes, NonceSize + 1)
    /\ opened.ret.err = "ErrDecryptionFailed"
    /\ opened.ret.plaintext.isNil

----------------------------------------------------------------------------
(* Properties of ValidateSeparation (checked under SpecSeparation).        *)

(* C19: ValidateSeparation returns nil exactly when both project           *)
(* identifiers are non-empty and differ, ForeignKeyExists is false,        *)
(* SharedEncryptionKey is false and SeparateHSMKeys is true; for every     *)
(* other value of the five fields it returns an error.                     *)
C19_SeparationAccepted ==
    sepOut.called =>
        LET g == sepOut.guarantee
        IN  sepOut.err.isNil =
               (/\ g.IdentityDBProject # ""
                /\ g.ResponseDBProject # ""
                /\ g.IdentityDBProject # g.ResponseDBProject
                /\ ~g.ForeignKeyExists
                /\ ~g.SharedEncryptionKey
                /\ g.SeparateHSMKeys)

(* Two distinct projects, no foreign key, no shared key, but HSM keys not  *)
(* separate: an error.                                                     *)
C19_Witness ==
    /\ sepOut.called
    /\ sepOut.guarantee.IdentityDBProject = "project-identity"
    /\ sepOut.guarantee.ResponseDBProject = "project-response"
    /\ ~sepOut.guarantee.ForeignKeyExists
    /\ ~sepOut.guarantee.SharedEncryptionKey
    /\ ~sepOut.guarantee.SeparateHSMKeys
    /\ ~sepOut.err.isNil

(* C20: every error ValidateSeparation returns wraps                       *)
(* ErrSeparationViolation, the error for an empty project identifier       *)
(* included.                                                               *)
C20_EveryErrorIsSeparationViolation ==
    (sepOut.called /\ ~sepOut.err.isNil) =>
        ErrorsIs(sepOut.err, "ErrSeparationViolation")

----------------------------------------------------------------------------
(* Properties of the Aggregator's lock (checked under SpecAggLock).        *)

(* C21: the Aggregator's lock is held by a goroutine only while that       *)
(* goroutine is inside AggregateResponses; when no call is in progress     *)
(* the lock is free, whether the calls returned a result or the            *)
(* ErrInsufficientResponses error; and every call that has begun returns.  *)
C21_LockReleasedOnEveryPath ==
    /\ [](\A p \in Callers :
            (aggMu.w = p) = (aggPc[p] \in {"wait", "body", "Unlock"}))
    /\ []((\A p \in Callers : aggPc[p] = "idle") => aggMu = RWFree)
    /\ \A p \in Callers : (aggPc[p] # "idle") ~> (aggPc[p] = "idle")

(* One caller has returned the error, another a result, no call is in      *)
(* progress and the lock is free.                                          *)
C21_Witness ==
    /\ \A p \in Callers : aggPc[p] = "idle"
    /\ aggMu = RWFree
    /\ \E p, q \in Callers :
          /\ aggRet[p].called
          /\ aggRet[p].op = "AggregateResponses"
          /\ aggRet[p].ret.err = "ErrInsufficientResponses"
          /\ aggRet[q].called
          /\ aggRet[q].op = "AggregateResponses"
          /\ aggRet[q].ret.err = "nil"

----------------------------------------------------------------------------
(* Properties of the blackout Checker (checked under SpecBlackout).        *)

(* The approver types whose approval the Override records.                 *)
Recorded(o) ==
    {t \in ApproverTypes :
        \/ t = "founder_1" /\ ~o.Approval1At.isNil
        \/ t = "founder_2" /\ ~o.Approval2At.isNil
        \/ t = "legal" /\ ~o.LegalApprovalAt.isNil}

(* The Override at address a is what c.overrides holds for each of its     *)
(* constituencies.                                                         *)
Registered(a) ==
    \A i \in DOMAIN requested[a].ACIDs :
        LET k == OverrideKey(requested[a].ElectionID, requested[a].ACIDs[i])
        IN  k \in DOMAIN overrides /\ overrides[k] = a

InOverrides(a) == \E k \in DOMAIN overrides : overrides[k] = a

ApprovedAt(a) == blkOut.called /\ blkOut.op = "ApproveOverride" /\ blkOut.a = a

(* C22: an override is Approved exactly when the founder_1, founder_2 and  *)
(* legal approvals have all been recorded; the Checker's overrides hold it *)
(* only then; after the ApproveOverride call that finds the three recorded *)
(* it is registered for each of its constituencies, and each of them stays *)
(* covered by an approved override (this one, or a later one approved for  *)
(* the same election and constituency); a call records the approval of its *)
(* approver type and no other, so that a repeated type adds nothing; a     *)
(* call with another approver type returns an error and changes neither    *)
(* the override nor the Checker.                                           *)
C22_AllThreeApprovals ==
    /\ [](\A a \in DOMAIN requested :
            /\ requested[a].Approved <=> Recorded(requested[a]) = ApproverTypes
            /\ InOverrides(a) => Recorded(requested[a]) = ApproverTypes
            /\ Recorded(requested[a]) = ApproverTypes =>
                \A i \in DOMAIN requested[a].ACIDs :
                    LET k == OverrideKey(requested[a].ElectionID, requested[a].ACIDs[i])
                    IN  k \in DOMAIN overrides /\ requested[overrides[k]].Approved
            /\ ApprovedAt(a) /\ blkOut.err = "nil" =>
                ((requested[a].Approved /\ Registered(a))
                    <=> Recorded(requested[a]) = ApproverTypes))
    /\ [][\A a \in DOMAIN requested :
            blkOut'.called /\ blkOut'.op = "ApproveOverride" /\ blkOut'.a = a =>
                IF blkOut'.approverType \in ApproverTypes
                THEN /\ blkOut'.err = "nil"
                     /\ Recorded(requested'[a])
                            = Recorded(requested[a]) \cup {blkOut'.approverType}
                ELSE /\ blkOut'.err # "nil"
                     /\ UNCHANGED <<elections, overrides, requested>>]_vars

(* An override for two constituencies has received its third approval: it *)
(* is approved and registered for both.                                    *)
C22_Witness ==
    /\ \E a \in DOMAIN requested :
        /\ ApprovedAt(a)
        /\ requested[a].Approved
        /\ Registered(a)
        /\ Len(requested[a].ACIDs) = 2

(* C24: Election.GetBlackoutForAC reports found = true exactly when the    *)
(* constituency is in the election's scope, and ACBlackoutSchedule and     *)
(* GetBlackoutsForACs list no window of an election for a constituency     *)
(* outside it.                                                              *)
C24_FoundIffInScope ==
    /\ blkOut.called /\ blkOut.op = "Election.GetBlackoutForAC" =>
        (blkOut.ret.found <=> IsACInScope(blkOut.election, blkOut.acID))
    /\ blkOut.called /\ blkOut.op = "ACBlackoutSchedule" =>
        \A i \in DOMAIN blkOut.ret :
            \E j \in DOMAIN elections :
                /\ elections[j].Name = blkOut.ret[i].ElectionName
                /\ IsACInScope(elections[j], blkOut.acID)
    /\ blkOut.called /\ blkOut.op = "GetBlackoutsForACs" =>
        \A acID \in DOMAIN blkOut.ret :
            ~blkOut.ret[acID].NextStart.isNil =>
                \E j \in DOMAIN elections :
                    /\ elections[j].Name = blkOut.ret[acID].NextElection
                    /\ IsACInScope(elections[j], acID)

(* The blackout windows an election gives a constituency: that of each of  *)
(* its phases the constituency votes in, or that of a single-phase         *)
(* election which names the constituency or names none.                    *)
WindowsOf(e, acID) ==
    {[start |-> e.Phases[i].BlackoutStart, end |-> e.Phases[i].BlackoutEnd] :
        i \in {j \in DOMAIN e.Phases : acID \in {e.Phases[j].ACIDs[k] : k \in DOMAIN e.Phases[j].ACIDs}}}
    \cup
    IF e.Phases = << >> /\ (e.ACIDs = << >> \/ acID \in {e.ACIDs[k] : k \in DOMAIN e.ACIDs})
    THEN {[start |-> e.BlackoutStartsAt, end |-> e.BlackoutEndsAt]}
    ELSE {}

(* An approved override the Checker holds covers the constituency, and the *)
(* instant lies strictly inside its period.                                *)
Overridden(acID, t) ==
    \E a \in DOMAIN requested :
        /\ InOverrides(a)
        /\ requested[a].Approved
        /\ acID \in {requested[a].ACIDs[k] : k \in DOMAIN requested[a].ACIDs}
        /\ requested[a].OverrideStart < t
        /\ t < requested[a].OverrideEnd

(* Some election gives the constituency a window that has the instant      *)
(* strictly inside.                                                        *)
Blacked(acID, t) ==
    \E i \in DOMAIN elections :
        \E w \in WindowsOf(elections[i], acID) : w.start < t /\ t < w.end

(* C27: IsBlackoutActive(ac, t) is true exactly when no approved override  *)
(* of the Checker that covers ac has OverrideStart < t < OverrideEnd and   *)
(* some election with ac in its scope has a blackout window with           *)
(* start < t < end; so it is false at the start and the end instant of     *)
(* the only window, and for a constituency of no election.                 *)
C27_ActiveIffInWindowAndNotOverridden ==
    blkOut.called /\ blkOut.op = "IsBlackoutActive" =>
        /\ blkOut.ret <=> (~Overridden(blkOut.acID, blkOut.at)
                            /\ Blacked(blkOut.acID, blkOut.at))
        /\ (\A i \in DOMAIN elections :
                \A w \in WindowsOf(elections[i], blkOut.acID) :
                    blkOut.at <= w.start \/ blkOut.at >= w.end)
            => ~blkOut.ret

(* The Checker holds an approved override for constituency 1 and is asked  *)
(* at the instant the override starts, inside the window of an election:   *)
(* the blackout is active.                                                 *)
C27_Witness ==
    /\ blkOut.called /\ blkOut.op = "IsBlackoutActive"
    /\ blkOut.acID = 1
    /\ \E a \in DOMAIN requested :
        InOverrides(a) /\ requested[a].OverrideStart = blkOut.at
    /\ blkOut.ret

(* C29: an approved override for election E and constituency A suppresses  *)
(* only the blackout of election E; while another election, for which the  *)
(* Checker holds no override, has A in blackout at t, IsBlackoutActive(A,  *)
(* t) is true inside the override's period too.                            *)
C29_OverrideScopedToElection ==
    blkOut.called /\ blkOut.op = "IsBlackoutActive" =>
        ((\E i \in DOMAIN elections :
            /\ \E w \in WindowsOf(elections[i], blkOut.acID) :
                    w.start < blkOut.at /\ blkOut.at < w.end
            /\ \A a \in DOMAIN requested :
                    InOverrides(a) => requested[a].ElectionID # elections[i].ID)
         => blkOut.ret)

----------------------------------------------------------------------------
(* Properties of the shared blackout Checker (checked under SpecChecker).  *)

(* C23: every call a goroutine makes on the shared Checker returns,        *)
(* whatever the other goroutines call meanwhile.                           *)
C23_EveryCallReturns ==
    \A p \in Callers : (chkPc[p] # "idle") ~> (chkPc[p] = "idle")

----------------------------------------------------------------------------
(* Properties of the civic score (checked under SpecScore).                *)

(* C25: after any sequence of UserScore.ApplyAction and                    *)
(* UserScore.ApplyDecay calls on a new user the score lies between         *)
(* MinScore and MaxScore and the level is the level of the score; and      *)
(* Calculate and CalculateSingle return a score between MinScore and       *)
(* MaxScore for every start score in that range.                           *)
C25_ScoreInRangeAndLevelCurrent ==
    /\ MinScore <= user.Score /\ user.Score <= MaxScore
    /\ user.Level = GetLevel(user.Score)
    /\ CalledPure => MinScore <= scoreOut.ret /\ scoreOut.ret <= MaxScore

(* An ApplyAction with the largest count has been clamped to MaxScore, and *)
(* the user has reached the highest level.                                 *)
C25_Witness ==
    /\ scoreOut.called /\ scoreOut.op = "UserScore.ApplyAction"
    /\ scoreOut.count = MaxCount
    /\ user.Score = MaxScore
    /\ user.Level = "power_user"

(* The actions from the i-th on applied one at a time with                 *)
(* Calculator.ApplyAction.                                                 *)
RECURSIVE StepByStep(_, _, _, _)
StepByStep(c, score, actions, i) ==
    IF i > Len(actions)
    THEN score
    ELSE StepByStep(c,
            CalculatorApplyAction(c, score, actions[i].Type, actions[i].Count).newScore,
            actions, i + 1)

(* C30: for every start score between MinScore and MaxScore and every list *)
(* of actions, CalculateWithActions returns the score that applying the    *)
(* actions one at a time, in order, with Calculator.ApplyAction gives.     *)
C30_BatchEqualsStepByStep ==
    scoreOut.called /\ scoreOut.op = "Calculate" =>
        scoreOut.ret = StepByStep(NewCalculator, scoreOut.currentScore, scoreOut.actions, 1)

----------------------------------------------------------------------------
(* Properties of the shared booth Matcher (checked under SpecMatcher).     *)

----------------------------------------------------------------------------
(* Properties of batches of two polls (checked under SpecPolls).           *)

(* The responses of a batch that carry the given poll id.                  *)
OfPoll(batch, pollID) == SelectSeq(batch, LAMBDA resp : resp.PollID = pollID)

(* C28: the result reported for pollID counts only the responses of the    *)
(* batch whose PollID is pollID: ResponseCount is their number, MeetsKAnon *)
(* is decided on their number, and the tallies are theirs.                 *)
C28_OnlyRequestedPollCounted ==
    Accepted =>
        LET own == OfPoll(responses, aggOut.pollID)
        IN  /\ Result.ResponseCount = Len(own)
            /\ Result.MeetsKAnon = (Len(own) >= config.KAnonymityThreshold)
            /\ ~Result.Results.isNil => Result.Results.m = TrueTally(own)

====
